---- MODULE Spec2Model ----
(***************************************************************************)
(* Model of minprof (src/minprof.hh) and of the way src/example.cc uses    *)
(* it: atomic 64-bit Counters, the statically registered StaticCounter     *)
(* instances, and the StaticCounterRegistry with find / get_name /         *)
(* get_counter / dump (Spec); the Registry of a program whose static       *)
(* initializers and threads call register_counter themselves               *)
(* (RegistrySpec, and RegistryDumpSpec without lookups);                   *)
(* Counters and Timers used as objects, with post-increment, durations of  *)
(* any unit and copy construction (ValueSpec); a dump that runs while      *)
(* Counters are incremented (DumpSpec); a Stopwatch and a copy of it over  *)
(* a clock (WatchSpec); the Scopewatches and Sections of two threads over  *)
(* a clock (ScopeSpec); two threads that each use a Stopwatch of their own *)
(* on one Timer (SharedSpec); the Stopwatches, a Stopwatch on the Timer of *)
(* the section and timed scopes together with Stopwatch::operator=         *)
(* (AssignSpec).                                                           *)
(*                                                                         *)
(* A std::uint64_t is a tuple of four 16-bit limbs, least significant      *)
(* first, so that arithmetic is exactly arithmetic modulo 2^64.  A C       *)
(* string is the sequence of its characters without the terminating NUL.   *)
(***************************************************************************)
EXTENDS Integers, Sequences, FiniteSets, TLC

(***************************************************************************)
(* Bounds of the model.                                                    *)
(***************************************************************************)
\* Number of calls of register_counter the static initializers of the program
\* make themselves.
MaxRegisterCalls == 1
\* Number of calls into the library the threads make once main runs.
MaxCalls == 2
\* Largest index handed to get_name / get_counter.
MaxIdx == 4

\* The threads of the program and its translation units.
Threads == {"t1", "t2"}
Units == {"u1", "u2"}

(***************************************************************************)
(* std::uint64_t (Counter::value_type, minprof.hh:108).                    *)
(***************************************************************************)
\* Radix of one limb: 2^16.
Limb == 65536
\* Limbs of a value_type: 4 * 16 = 64 bits.
NumLimbs == 4

Zero == <<0, 0, 0, 0>>
One == <<1, 0, 0, 0>>
Nine == <<9, 0, 0, 0>>
\* std::chrono::milliseconds{1000} in nanoseconds: 10^9 = 15258 * 2^16 + 51712.
Second == <<51712, 15258, 0, 0>>
\* 2^64 - 1, the largest value_type.
MaxU64 == <<65535, 65535, 65535, 65535>>

\* Limb-wise addition with carry; the carry out of the last limb is dropped.
RECURSIVE AddCarry(_, _, _)
AddCarry(a, b, carry) ==
    IF a = <<>> THEN <<>>
    ELSE LET s == Head(a) + Head(b) + carry
         IN  <<s % Limb>> \o AddCarry(Tail(a), Tail(b), s \div Limb)

\* a + b in value_type, i.e. modulo 2^64.
Add64(a, b) == AddCarry(a, b, 0)

\* An unbounded natural (one more limb than value_type) used for exact sums.
Widen(a) == a \o <<0>>
AddWide(w, b) == AddCarry(w, Widen(b), 0)
\* The value_type a wide number converts to: the wide number modulo 2^64.
Truncate(w) == SubSeq(w, 1, NumLimbs)

(***************************************************************************)
(* Characters and C strings.                                               *)
(***************************************************************************)
DigitChars == <<"0", "1", "2", "3", "4", "5", "6", "7", "8", "9">>

\* Quotient and remainder of a limb tuple by 10, from the top limb down.
RECURSIVE DivTen(_, _)
DivTen(a, rem) ==
    IF a = <<>> THEN [q |-> <<>>, r |-> rem]
    ELSE LET n   == Len(a)
             cur == rem * Limb + a[n]
             low == DivTen(SubSeq(a, 1, n - 1), cur % 10)
         IN  [q |-> low.q \o <<cur \div 10>>, r |-> low.r]

\* operator<<(std::ostream&, unsigned long): base 10, no padding, no separators.
RECURSIVE ToDecimal(_)
ToDecimal(v) ==
    LET d == DivTen(v, 0)
    IN  IF d.q = Zero THEN <<DigitChars[d.r + 1]>>
        ELSE ToDecimal(d.q) \o <<DigitChars[d.r + 1]>>

\* Variant of StrEqual: the comparison stops at the end of the shorter string.
RECURSIVE StrEqual_prefix(_, _)
StrEqual_prefix(a, b) ==
    IF a = <<>> \/ b = <<>> THEN TRUE
    ELSE Head(a) = Head(b) /\ StrEqual_prefix(Tail(a), Tail(b))

\* std::strcmp(a, b) == 0: the two strings agree character by character up to
\* and including the terminating NUL.
RECURSIVE StrEqual(_, _)
StrEqual(a, b) ==
    IF a = <<>> \/ b = <<>> THEN a = <<>> /\ b = <<>>
    ELSE Head(a) = Head(b) /\ StrEqual(Tail(a), Tail(b))

(***************************************************************************)
(* Names, call sites and counter objects.                                  *)
(***************************************************************************)
\* The name literals the programs use (typestring_is(name), Name::data()).
NameA == <<"a">>
NameAB == <<"a", "b">>
NameLines == <<"a", "\n", "b">>
Names == {NameA, NameAB, NameLines}

\* The names a caller may hand to find at run time.
QueryNames == Names \cup {<<"A">>, <<>>}

\* A program is the set of names each translation unit has call sites for.
Programs ==
    { [u \in Units |-> IF u = "u1" THEN {NameA, NameAB} ELSE {NameA, NameLines}],
      [u \in Units |-> IF u = "u1" THEN {NameAB} ELSE {NameAB, NameA}],
      [u \in Units |-> IF u = "u1" THEN {} ELSE {NameAB}] }

\* The values the Counter with automatic storage is constructed with.
InitialValues == {Zero, Nine}
\* The amounts handed to Counter::operator+=.
Amounts == {Nine, MaxU64}
\* The durations handed to Timer::operator+=, in nanoseconds.
Durations == {Second}

\* Counter objects: the function-local static of each StaticCounter<Name>::get
\* and one Counter with automatic storage (minprof::Timer timer{} in test2).
StaticAddr(name) == <<"static", name>>
LocalAddr == <<"local", <<"timer">>>>

\* nullptr.
Null == <<"nullptr">>

Addrs == {StaticAddr(n) : n \in Names} \cup {LocalAddr}

(***************************************************************************)
(* State.                                                                  *)
(***************************************************************************)
VARIABLES
    phase,        \* "startup" (static initialization), "main", "aborted" (an
                  \* assertion failed) or "undefined" (a data race on the
                  \* Registry: the program has no defined behaviour any more)
    refs,         \* the program: the names each translation unit refers to
    loaded,       \* what the Counter::operator= each thread is inside has read
                  \* from its argument, Null outside
    initDone,     \* <<unit, name>>: that unit's initializer of index has run
    guard,        \* names whose StaticCounter<Name>::index is initialized
    index,        \* StaticCounter<Name>::index
    m_names,      \* StaticCounterRegistry::m_names
    m_instances,  \* StaticCounterRegistry::m_instances
    direct,       \* history: calls of register_counter the program made itself
    reg,          \* the register_counter call each thread is inside once main
                  \* runs: the statement it has executed, the name, and count()
                  \* when the call began
    raced,        \* history: a call on the Registry overlapped a call of
                  \* register_counter by another thread
    mem,          \* Counter::m_value of every Counter object
    total,        \* history: initial value plus exact sum of what was added
    assigned,     \* history: Counters that were the target of operator=
    issuers,      \* history: the units whose call sites added to each Counter
    calls,        \* history: calls into the library made so far
    res,          \* what the latest call that returns a result returned
    dump_pc,      \* "idle", "loop" (inside dump's for loop) or "done"
    dumper,       \* the thread that is inside dump, or "none"
    dump_idx,     \* dump's loop variable idx
    out,          \* the characters dump has written to its stream
    dirty,        \* history: a Counter or the Registry changed since the latest dump began
    returned,     \* history: what each Counter's latest post-increments returned
    before,       \* history: each Counter's value when those post-increments began
    clock,        \* what Stopwatch::Clock::now() reads, in nanoseconds since epoch
    asserts,      \* the build evaluates assert (NDEBUG is not defined)
    m_start,      \* Stopwatch::m_start of every Stopwatch object, Null if none
    kind,         \* the class each Stopwatch object was constructed as
    last,         \* history: the latest call made on each Stopwatch object
    elapsed,      \* history: time since each object's latest start() or split()
    alive,        \* history: time since each object's constructor returned (for a
                  \* copy: the constructor of the Stopwatch it was copied from)
    retired,      \* history: the durations each Stopwatch object gave its Timer
    entries,      \* history: the Sections constructed so far
    abandoned,    \* history: the open time each object's start() calls dropped
    entering,     \* the scoped objects whose constructor body has not run yet
    run,          \* history: each object's current run since its start()
    assigning,    \* the Stopwatch::operator= that has loaded and not yet stored
    splitting,    \* the split() each Stopwatch object is inside: it has read the
                  \* clock and not yet added to the Timer
    seen          \* history: what the latest dump found, where it is recorded

program == <<refs, loaded, raced>>
registry == <<guard, index, m_names, m_instances, direct, reg>>
counters == <<mem, total, assigned, issuers>>
dumping == <<dump_pc, dumper, dump_idx, out>>
values == <<returned, before, seen>>
watches == <<clock, asserts, m_start, kind, last, elapsed, alive, retired, entries,
            abandoned, entering, run, assigning, splitting>>
vars == <<phase, refs, loaded, raced, initDone, guard, index, m_names, m_instances, direct,
          reg, mem,
          total, assigned, issuers, calls, res, dump_pc, dumper, dump_idx, out, dirty,
          returned, before, clock, asserts, m_start, kind, last, elapsed, alive,
          retired, entries, abandoned, entering, run, assigning, splitting, seen>>

\* The history of dumps is not recorded.
NoSeen == [on |-> FALSE, begin |-> <<>>, printed |-> <<>>]

\* No post-increment has returned anything yet.
NoValues ==
    /\ returned = <<>>
    /\ before = <<>>
    /\ seen = NoSeen

\* No Stopwatch::operator= is under way.
NoAssign == [on |-> FALSE, dst |-> <<>>, src |-> <<>>, val |-> Zero]

\* No split() is under way on a Stopwatch object.  Inside one, op is the call
\* that led to it ("split", "stop", or for ~Scopewatch() the path on which
\* the scope was left) and end is what Clock::now() returned.
NoSplit == [on |-> FALSE, op |-> "none", end |-> 0]

\* The program has constructed no Stopwatch.
NoWatches ==
    /\ clock = 1
    /\ asserts = TRUE
    /\ m_start = <<>>
    /\ kind = <<>>
    /\ last = <<>>
    /\ elapsed = <<>>
    /\ alive = <<>>
    /\ retired = <<>>
    /\ entries = 0
    /\ abandoned = <<>>
    /\ entering = {}
    /\ run = <<>>
    /\ assigning = NoAssign
    /\ splitting = <<>>

\* No thread is inside register_counter.
Outside == [pc |-> "idle", name |-> <<>>, was |-> 0]
NoReg == [t \in Threads |-> Outside]

\* No thread is inside Counter::operator=.
NoLoad == [t \in Threads |-> Null]

NoResult == [op |-> "none", name |-> <<>>, arg |-> 0, found |-> FALSE,
             idx |-> 0, val |-> Null]

Init ==
    /\ phase = "startup"
    /\ refs \in Programs
    /\ initDone = {}
    /\ guard = {}
    /\ index = [n \in Names |-> 0]
    /\ m_names = <<>>
    /\ m_instances = <<>>
    /\ direct = 0
    /\ loaded = NoLoad
    /\ reg = NoReg
    /\ raced = FALSE
    /\ \E init \in InitialValues :
         mem = [a \in Addrs |-> IF a = LocalAddr THEN init ELSE Zero]
    /\ total = [a \in Addrs |-> Widen(mem[a])]
    /\ assigned = {}
    /\ issuers = [a \in Addrs |-> {}]
    /\ calls = 0
    /\ res = NoResult
    /\ dump_pc = "idle"
    /\ dumper = "none"
    /\ dump_idx = 0
    /\ out = <<>>
    /\ dirty = FALSE
    /\ NoValues
    /\ NoWatches

(***************************************************************************)
(* Named-instance resolution and static registration.                      *)
(***************************************************************************)
\* StaticCounter<Name>::get() as instantiated in a translation unit: the
\* function-local static of an inline function is one object program-wide.
StaticCounter_get(unit, name) == StaticAddr(name)

MINPROF_COUNTER(unit, name) == StaticCounter_get(unit, name)
MINPROF_TIMER(unit, name) == MINPROF_COUNTER(unit, name)

\* Variant of push_back: the element is inserted at the front.
push_front(vec, x) == <<x>> \o vec

\* std::vector::push_back.
push_back(vec, x) == Append(vec, x)

\* What register_counter returns once both vectors have grown.
register_result(instances) == Len(instances) - 1

\* Variant of index_initialized: every unit that instantiates
\* StaticCounter<Name> runs an initializer of its own.
index_initialized_never(name) == FALSE

\* The guard of the one definition of StaticCounter<Name>::index that the
\* translation units share: its initializer runs once.
index_initialized(name) == name \in guard

\* StaticCounterRegistry::register_counter<Name>(): the name and the instance
\* are appended; what the call returns is register_result of the instances
\* it leaves behind.  The function takes no lock and is called while static
\* initialization runs, when the process has one thread.
register_counter(unit, name) ==
    /\ m_names' = push_back(m_names, name)
    /\ m_instances' = push_back(m_instances, StaticCounter_get(unit, name))

\* The dynamic initialization of StaticCounter<Name>::index that translation
\* unit `unit` emits because one of its call sites names `name`: index takes
\* what register_counter returns.
StaticInit(unit, name) ==
    /\ phase = "startup"
    /\ name \in refs[unit]
    /\ <<unit, name>> \notin initDone
    /\ initDone' = initDone \cup {<<unit, name>>}
    /\ IF index_initialized(name)
          THEN UNCHANGED registry
          ELSE /\ register_counter(unit, name)
               /\ index' = [index EXCEPT ![name] = register_result(m_instances')]
               /\ guard' = guard \cup {name}
               /\ UNCHANGED <<direct, reg>>
    /\ UNCHANGED <<values, watches, phase, program, counters, calls, res, dumping, dirty>>

\* Variant of startup_complete: main may begin before the initializers ran.
startup_complete_lazy == TRUE

\* Static initialization is over when every initializer has run.
startup_complete ==
    \A u \in Units : \A n \in refs[u] : <<u, n>> \in initDone

\* Control reaches main.
EnterMain ==
    /\ phase = "startup"
    /\ startup_complete
    /\ phase' = "main"
    /\ UNCHANGED <<values, watches, program, initDone, registry, counters, calls,
                   res, dumping, dirty>>

(***************************************************************************)
(* Counter.                                                                *)
(***************************************************************************)
\* Variant of fetch_add: the argument is stored instead of added.
fetch_add_store(old, arg) == arg

\* std::atomic<value_type>::fetch_add, operator++ and operator+=: one atomic
\* read-modify-write that stores old + arg.
fetch_add(old, arg) == Add64(old, arg)

\* Counter::operator=(const Counter& copy): m_value = copy.
copy_assign(old, copy) == copy

\* A thread may make a call: main runs and the thread is inside neither
\* dump, Counter::operator= nor register_counter.
CanCall(t) ==
    /\ phase = "main"
    /\ calls < MaxCalls
    /\ dumper # t
    /\ loaded[t] = Null
    /\ reg[t].pc = "idle"

Called(t) == calls' = calls + 1

\* A call site of a unit adds arg to the Counter at address a, which its user
\* knows as object obj.
Accumulate(a, obj, units, arg) ==
    /\ mem' = [mem EXCEPT ![a] = fetch_add(@, arg)]
    /\ total' = [total EXCEPT ![obj] = AddWide(@, arg)]
    /\ issuers' = [issuers EXCEPT ![obj] = @ \cup units]
    /\ dirty' = TRUE
    /\ UNCHANGED assigned

\* MINPROF_EVENT(name): ++MINPROF_COUNTER(name).
Event(t, unit, name) ==
    /\ CanCall(t)
    /\ name \in refs[unit]
    /\ Accumulate(MINPROF_COUNTER(unit, name), StaticAddr(name), {unit}, One)
    /\ Called(t)
    /\ UNCHANGED <<values, watches, phase, program, initDone, registry, res, dumping>>

\* MINPROF_COUNTER(name)++, which returns the value fetch_add found.
PostIncrement(t, unit, name) ==
    /\ CanCall(t)
    /\ name \in refs[unit]
    /\ Accumulate(MINPROF_COUNTER(unit, name), StaticAddr(name), {unit}, One)
    /\ res' = [op |-> "post_increment", name |-> name, arg |-> 0,
               found |-> FALSE, idx |-> 0,
               val |-> mem[MINPROF_COUNTER(unit, name)]]
    /\ Called(t)
    /\ UNCHANGED <<values, watches, phase, program, initDone, registry, dumping>>

\* ++StaticCounter<Name>::get().
GetIncrement(t, unit, name) ==
    /\ CanCall(t)
    /\ name \in refs[unit]
    /\ Accumulate(StaticCounter_get(unit, name), StaticAddr(name), {unit}, One)
    /\ Called(t)
    /\ UNCHANGED <<values, watches, phase, program, initDone, registry, res, dumping>>

\* MINPROF_COUNTER(name) += amount.
AddAssign(t, unit, name, amount) ==
    /\ CanCall(t)
    /\ name \in refs[unit]
    /\ Accumulate(MINPROF_COUNTER(unit, name), StaticAddr(name), {unit}, amount)
    /\ Called(t)
    /\ UNCHANGED <<values, watches, phase, program, initDone, registry, res, dumping>>

\* MINPROF_TIMER(name) += duration, the duration given in nanoseconds.
TimerAddAssign(t, unit, name, dur) ==
    /\ CanCall(t)
    /\ name \in refs[unit]
    /\ Accumulate(MINPROF_TIMER(unit, name), StaticAddr(name), {unit}, dur)
    /\ Called(t)
    /\ UNCHANGED <<values, watches, phase, program, initDone, registry, res, dumping>>

\* ++timer and timer += amount on the Counter with automatic storage.
LocalAdd(t, amount) ==
    /\ CanCall(t)
    /\ Accumulate(LocalAddr, LocalAddr, {}, amount)
    /\ Called(t)
    /\ UNCHANGED <<values, watches, phase, program, initDone, registry, res, dumping>>

\* timer = MINPROF_COUNTER(name) begins: Counter::operator=(const Counter&
\* copy) executes m_value = copy, and the conversion of copy to value_type
\* comes first: an atomic load of the argument.  The store is an atomic
\* operation of its own, before which other threads run.
LocalAssignLoad(t, unit, name) ==
    /\ CanCall(t)
    /\ name \in refs[unit]
    /\ loaded' = [loaded EXCEPT ![t] = mem[MINPROF_COUNTER(unit, name)]]
    /\ Called(t)
    /\ UNCHANGED <<values, watches, phase, refs, raced, initDone, registry, counters,
                   res, dumping, dirty>>

\* The operator= that thread t is inside stores what it has loaded.
LocalAssignStore(t) ==
    /\ phase = "main"
    /\ loaded[t] # Null
    /\ mem' = [mem EXCEPT ![LocalAddr] = copy_assign(@, loaded[t])]
    /\ assigned' = assigned \cup {LocalAddr}
    /\ dirty' = TRUE
    /\ loaded' = [loaded EXCEPT ![t] = Null]
    /\ UNCHANGED <<values, watches, phase, refs, raced, initDone, registry, total,
                   issuers, calls, res, dumping>>

(***************************************************************************)
(* StaticCounterRegistry.                                                  *)
(***************************************************************************)
\* StaticCounterRegistry::count().
count == Len(m_instances)

\* The for loop of find from index i on; idx keeps the caller's value when
\* nothing matches.
RECURSIVE find_from(_, _, _, _)
find_from(names, name, idx, i) ==
    IF i >= Len(names) THEN [found |-> FALSE, idx |-> idx]
    ELSE IF StrEqual(names[i + 1], name) THEN [found |-> TRUE, idx |-> i]
    ELSE find_from(names, name, idx, i + 1)

\* StaticCounterRegistry::find(name, idx).
find(name, idx) == find_from(m_names, name, idx, 0)

\* Variant of get_name: the bounds check is off by one.
get_name_short(idx) ==
    IF idx + 1 >= Len(m_names) THEN Null ELSE m_names[idx + 1]

\* StaticCounterRegistry::get_name(idx).
get_name(idx) == IF idx >= Len(m_names) THEN Null ELSE m_names[idx + 1]

\* StaticCounterRegistry::get_counter(idx).
get_counter(idx) ==
    IF idx >= Len(m_instances) THEN Null ELSE m_instances[idx + 1]

\* Another thread is inside register_counter: an access of thread t to the
\* Registry is not ordered with that call's push_back, a data race.
Conflict(t) == \E s \in Threads \ {t} : reg[s].pc # "idle"

\* Thread t reads the Registry.
Reads(t) == raced' = (raced \/ Conflict(t))

\* Thread t writes the Registry: the write also races with the dump another
\* thread is inside.
Writes(t) == raced' = (raced \/ Conflict(t) \/ dumper \notin {"none", t})

\* A thread calls find with idx holding idx0.
Find(t, name, idx0) ==
    /\ CanCall(t)
    /\ LET r == find(name, idx0)
       IN  res' = [op |-> "find", name |-> name, arg |-> idx0,
                   found |-> r.found, idx |-> r.idx, val |-> Null]
    /\ Called(t)
    /\ Reads(t)
    /\ UNCHANGED <<values, watches, phase, refs, loaded, initDone, registry,
                   counters, dumping, dirty>>

\* A thread calls get_name.
GetName(t, idx) ==
    /\ CanCall(t)
    /\ res' = [op |-> "get_name", name |-> <<>>, arg |-> idx,
               found |-> FALSE, idx |-> idx, val |-> get_name(idx)]
    /\ Called(t)
    /\ Reads(t)
    /\ UNCHANGED <<values, watches, phase, refs, loaded, initDone, registry,
                   counters, dumping, dirty>>

\* A thread calls get_counter.
GetCounter(t, idx) ==
    /\ CanCall(t)
    /\ res' = [op |-> "get_counter", name |-> <<>>, arg |-> idx,
               found |-> FALSE, idx |-> idx, val |-> get_counter(idx)]
    /\ Called(t)
    /\ Reads(t)
    /\ UNCHANGED <<values, watches, phase, refs, loaded, initDone, registry,
                   counters, dumping, dirty>>

\* unsigned idx as a value_type, for operator<<.
FromIndex(idx) == <<idx, 0, 0, 0>>

\* Variant of dump_line: the separator is a comma without the space.
dump_line_nospace(idx) ==
    m_names[idx + 1] \o <<",">> \o ToDecimal(mem[m_instances[idx + 1]])
      \o <<"\n">>

\* Variant of dump_line: the entries are written from the last one to the
\* first.
dump_line_backwards(idx) ==
    LET at   == Len(m_names) - idx
        name == m_names[at]
    IN  (IF name # Null
           THEN name
           ELSE <<"c", "o", "u", "n", "t", "e", "r", "_">>
                  \o ToDecimal(FromIndex(idx)))
        \o <<",", " ">> \o ToDecimal(mem[m_instances[at]]) \o <<"\n">>

\* What one pass of dump's loop body writes for index idx.
dump_line(idx) ==
    LET name == m_names[idx + 1]
    IN  (IF name # Null
           THEN name
           ELSE <<"c", "o", "u", "n", "t", "e", "r", "_">>
                  \o ToDecimal(FromIndex(idx)))
        \o <<",", " ">> \o ToDecimal(mem[m_instances[idx + 1]]) \o <<"\n">>

\* Where the history of dumps is recorded: the exact sums of all Counters
\* when dump was entered, and the exact sum of each Counter when its line was
\* written.
seen_begin ==
    IF seen.on THEN [seen EXCEPT !.begin = total, !.printed = <<>>] ELSE seen

seen_line(idx) ==
    IF seen.on
       THEN [seen EXCEPT !.printed = Append(@, total[m_instances[idx + 1]])]
       ELSE seen

\* A static initializer of the program calls the public
\* StaticCounterRegistry::register_counter<Name>() itself, for a name that its
\* unit refers to (the call instantiates StaticCounter<Name>, whose index
\* registers the name as well, before or after this call).  Static
\* initialization has one thread, so the call runs from its first statement
\* to its return with no other thread in the process.
RegisterDirect(unit, name) ==
    /\ phase = "startup"
    /\ direct < MaxRegisterCalls
    /\ name \in refs[unit]
    /\ register_counter(unit, name)
    /\ res' = [op |-> "register_counter", name |-> name, arg |-> 0,
               found |-> FALSE, idx |-> register_result(m_instances'),
               val |-> Null]
    /\ direct' = direct + 1
    /\ UNCHANGED <<values, watches, phase, program, initDone, guard, index, reg,
                   counters, calls, dumping, dirty>>

\* Thread t calls register_counter<Name>() once main runs, which the function
\* does not prevent: it takes no lock and checks nothing.  The first
\* statement, m_names.push_back(Name::data()).
RegisterNames(t, unit, name) ==
    /\ CanCall(t)
    /\ name \in refs[unit]
    /\ m_names' = push_back(m_names, name)
    /\ reg' = [reg EXCEPT ![t] = [pc |-> "names", name |-> name, was |-> count]]
    /\ direct' = direct + 1
    /\ dirty' = TRUE
    /\ Called(t)
    /\ Writes(t)
    /\ UNCHANGED <<values, watches, phase, refs, loaded, initDone, guard, index,
                   m_instances, counters, res, dumping>>

\* The second statement, m_instances.push_back(&StaticCounter::get()).
RegisterInstances(t) ==
    /\ phase = "main"
    /\ reg[t].pc = "names"
    /\ m_instances' = push_back(m_instances, StaticAddr(reg[t].name))
    /\ reg' = [reg EXCEPT ![t].pc = "instances"]
    /\ dirty' = TRUE
    /\ Writes(t)
    /\ UNCHANGED <<values, watches, phase, refs, loaded, initDone, guard, index,
                   m_names, direct, counters, calls, res, dumping>>

\* The third statement, return self.m_instances.size() - 1.
RegisterReturn(t) ==
    /\ phase = "main"
    /\ reg[t].pc = "instances"
    /\ res' = [op |-> "register_counter", name |-> reg[t].name, arg |-> 0,
               found |-> FALSE, idx |-> register_result(m_instances),
               val |-> Null]
    /\ reg' = [reg EXCEPT ![t] = Outside]
    /\ Reads(t)
    /\ UNCHANGED <<values, watches, phase, refs, loaded, initDone, guard, index,
                   m_names, m_instances, direct, counters, calls, dumping, dirty>>

\* Thread t is about to access the Registry while another thread is inside
\* register_counter, or to push_back while another thread is inside dump.
\* The accesses are a data race, so the program has undefined behaviour:
\* besides going on as if the accesses had been ordered (the steps above)
\* it may read a freed buffer, leave the vectors corrupted or end in a
\* signal.  The model follows such a program no further.
RaceUndefined(t) ==
    /\ phase = "main"
    /\ \/ /\ CanCall(t) \/ reg[t].pc # "idle" \/ (dumper = t /\ dump_pc = "loop")
          /\ Conflict(t)
       \/ /\ CanCall(t) \/ reg[t].pc = "names"
          /\ dumper \notin {"none", t}
    /\ phase' = "undefined"
    /\ raced' = TRUE
    /\ UNCHANGED <<values, watches, refs, loaded, initDone, registry, counters,
                   calls, res, dumping, dirty>>

\* A thread enters dump(std::ostream&) with a fresh stream.
DumpBegin(t) ==
    /\ CanCall(t)
    /\ dumper = "none"
    /\ dump_pc' = "loop"
    /\ dumper' = t
    /\ dump_idx' = 0
    /\ out' = <<>>
    /\ dirty' = FALSE
    /\ seen' = seen_begin
    /\ Called(t)
    /\ Reads(t)
    /\ UNCHANGED <<returned, before, watches, phase, refs, loaded, initDone,
                   registry, counters, res>>

\* One pass of dump's loop.
DumpLine ==
    /\ phase = "main"
    /\ dump_pc = "loop"
    /\ dump_idx < Len(m_instances)
    /\ out' = out \o dump_line(dump_idx)
    /\ dump_idx' = dump_idx + 1
    /\ seen' = seen_line(dump_idx)
    /\ Reads(dumper)
    /\ UNCHANGED <<returned, before, watches, phase, refs, loaded, initDone,
                   registry, counters, calls, res, dump_pc, dumper, dirty>>

\* dump's loop ends and dump returns.
DumpReturn ==
    /\ phase = "main"
    /\ dump_pc = "loop"
    /\ dump_idx >= Len(m_instances)
    /\ dump_pc' = "done"
    /\ dumper' = "none"
    /\ Reads(dumper)
    /\ UNCHANGED <<values, watches, phase, refs, loaded, initDone, registry,
                   counters, calls, res, dump_idx, out, dirty>>

(***************************************************************************)
(* The program.                                                            *)
(***************************************************************************)
\* The state of a program whose units use MINPROF_COUNTER("a") and
\* MINPROF_COUNTER("ab") and whose main has run for a while: both names are
\* registered, "a" holds one of InitialValues (test2 adds 9 to its Counter),
\* and from now on the history of dumps is recorded.
DumpInit ==
    /\ phase = "main"
    /\ refs = [u \in Units |-> IF u = "u1" THEN {NameA, NameAB} ELSE {NameA}]
    /\ initDone = {<<u, n>> : u \in Units, n \in {NameA, NameAB}}
                    \ {<<"u2", NameAB>>}
    /\ guard = {NameA, NameAB}
    /\ index = [n \in Names |-> IF n = NameAB THEN 1 ELSE 0]
    /\ m_names = <<NameA, NameAB>>
    /\ m_instances = <<MINPROF_COUNTER("u1", NameA), MINPROF_COUNTER("u1", NameAB)>>
    /\ direct = 0
    /\ loaded = NoLoad
    /\ reg = NoReg
    /\ raced = FALSE
    /\ \E init \in InitialValues :
         mem = [a \in Addrs |-> IF a = MINPROF_COUNTER("u1", NameA)
                                   THEN init ELSE Zero]
    /\ total = [a \in Addrs |-> Widen(mem[a])]
    /\ assigned = {}
    /\ issuers = [a \in Addrs |-> {}]
    /\ calls = 0
    /\ res = NoResult
    /\ dump_pc = "idle"
    /\ dumper = "none"
    /\ dump_idx = 0
    /\ out = <<>>
    /\ dirty = FALSE
    /\ returned = <<>>
    /\ before = <<>>
    /\ seen = [NoSeen EXCEPT !.on = TRUE]
    /\ NoWatches

\* One thread dumps while the other one increments Counters.
DumpNext ==
    \/ \E t \in Threads, u \in Units, n \in Names : Event(t, u, n)
    \/ \E t \in Threads, u \in Units, n \in Names, amount \in Amounts :
          AddAssign(t, u, n, amount)
    \/ \E t \in Threads : DumpBegin(t)
    \/ DumpLine
    \/ DumpReturn

DumpSpec == DumpInit /\ [][DumpNext]_vars

Next ==
    \/ \E u \in Units, n \in Names : StaticInit(u, n)
    \/ EnterMain
    \/ \E t \in Threads, u \in Units, n \in Names : Event(t, u, n)
    \/ \E t \in Threads, u \in Units, n \in Names : PostIncrement(t, u, n)
    \/ \E t \in Threads, u \in Units, n \in Names : GetIncrement(t, u, n)
    \/ \E t \in Threads, u \in Units, n \in Names, amount \in Amounts :
          AddAssign(t, u, n, amount)
    \/ \E t \in Threads, u \in Units, n \in Names, dur \in Durations :
          TimerAddAssign(t, u, n, dur)
    \/ \E t \in Threads, amount \in {One} \cup Amounts : LocalAdd(t, amount)
    \/ \E t \in Threads, u \in Units, n \in Names : LocalAssignLoad(t, u, n)
    \/ \E t \in Threads : LocalAssignStore(t)
    \/ \E t \in Threads, name \in QueryNames, idx0 \in {0, MaxIdx} :
          Find(t, name, idx0)
    \/ \E t \in Threads, idx \in 0..MaxIdx : GetName(t, idx)
    \/ \E t \in Threads, idx \in 0..MaxIdx : GetCounter(t, idx)
    \/ \E t \in Threads : DumpBegin(t)
    \/ DumpLine
    \/ DumpReturn

Spec == Init /\ [][Next]_vars

\* A program with call sites for "ab" in both translation units and for "a"
\* in one, which has no Counter with automatic storage.
RegistryInit ==
    /\ Init
    /\ refs = [u \in Units |-> IF u = "u1" THEN {NameAB} ELSE {NameAB, NameA}]
    /\ mem[LocalAddr] = Zero

\* That program uses the whole interface of the Registry: its static
\* initializers call register_counter themselves, and once main runs its
\* threads add to the named Counters, look entries up, dump and call
\* register_counter.
RegistryNext ==
    \/ \E u \in Units, n \in Names : StaticInit(u, n)
    \/ \E u \in Units, n \in Names : RegisterDirect(u, n)
    \/ EnterMain
    \/ \E t \in Threads, u \in Units, n \in Names : RegisterNames(t, u, n)
    \/ \E t \in Threads : RegisterInstances(t)
    \/ \E t \in Threads : RegisterReturn(t)
    \/ \E t \in Threads : RaceUndefined(t)
    \/ \E t \in Threads, n \in Names : AddAssign(t, "u2", n, MaxU64)
    \/ \E t \in Threads, name \in QueryNames : Find(t, name, MaxIdx)
    \/ \E t \in Threads, idx \in 0..MaxIdx : GetName(t, idx)
    \/ \E t \in Threads, idx \in 0..MaxIdx : GetCounter(t, idx)
    \/ \E t \in Threads : DumpBegin(t)
    \/ DumpLine
    \/ DumpReturn

RegistrySpec == RegistryInit /\ [][RegistryNext]_vars

\* That program when its threads add to the named Counters, dump and call
\* register_counter, and look no entry up.
RegistryDumpNext ==
    \/ \E u \in Units, n \in Names : StaticInit(u, n)
    \/ \E u \in Units, n \in Names : RegisterDirect(u, n)
    \/ EnterMain
    \/ \E t \in Threads, u \in Units, n \in Names : RegisterNames(t, u, n)
    \/ \E t \in Threads : RegisterInstances(t)
    \/ \E t \in Threads : RegisterReturn(t)
    \/ \E t \in Threads : RaceUndefined(t)
    \/ \E t \in Threads, n \in Names : AddAssign(t, "u2", n, MaxU64)
    \/ \E t \in Threads : DumpBegin(t)
    \/ DumpLine
    \/ DumpReturn

RegistryDumpSpec == RegistryInit /\ [][RegistryDumpNext]_vars

(***************************************************************************)
(* Properties.                                                             *)
(***************************************************************************)
\* The names some call site of the program refers to.
Referenced == UNION {refs[u] : u \in Units}

\* The names whose index initializer has run in some unit.
Resolved == {n \in Names : \E u \in Units : <<u, n>> \in initDone}

\* C1 as stated: for every interleaving of ++ and += calls on one Counter its
\* value equals the initial value plus the exact sum of all increments and
\* amounts.
C1_ExactSum ==
    \A a \in Addrs : a \notin assigned => Widen(mem[a]) = total[a]

\* C1, amended: for every interleaving of ++ and += calls on one Counter its
\* value equals the initial value plus the sum of all increments and amounts,
\* taken modulo 2^64 (no update is lost; the sum wraps around).
C1_NoLostUpdate ==
    \A a \in Addrs : a \notin assigned => mem[a] = Truncate(total[a])

\* Two calls were made on one Counter and their exact sum no longer fits.
C1_Witness ==
    \E a \in Addrs :
        /\ a \notin assigned
        /\ calls = 2
        /\ total[a][NumLimbs + 1] = 1
        /\ mem[a] = Truncate(total[a])

\* C3: for a program that resolves its names through StaticCounter<Name>
\* (the macros and get()), in every reachable state count() is the number of
\* distinct names resolved so far, no name is at two indices and no instance
\* is at two indices, however many call sites and units refer to a name.
C3_RegisteredOnce ==
    /\ count = Cardinality(Resolved)
    /\ \A i \in 0..(count - 1), j \in 0..(count - 1) :
         i # j => /\ get_name(i) # get_name(j)
                  /\ get_counter(i) # get_counter(j)

\* Both units have run their initializer for one name, and three names are
\* registered.
C3_Witness ==
    /\ \E n \in Names : \A u \in Units : <<u, n>> \in initDone
    /\ count = 3

\* C4: when main runs every referenced name is registered, whether or not a
\* call was made; a Counter is 0 while static initialization runs; and from
\* the start of main on count() and the entries of the Registry never change.
C4_RegisteredBeforeMain ==
    /\ [](phase = "main" =>
            \A n \in Referenced :
               \E i \in 0..(count - 1) :
                  get_name(i) = n /\ get_counter(i) = StaticAddr(n))
    /\ [](phase = "startup" => \A n \in Names : mem[StaticAddr(n)] = Zero)
    /\ [][phase = "main" =>
            /\ phase' = "main"
            /\ count' = count
            /\ m_names' = m_names
            /\ m_instances' = m_instances]_vars

\* main has begun, no call was made yet and three names are registered.
C4_Witness ==
    /\ phase = "main"
    /\ calls = 0
    /\ count = 3
    /\ \A n \in Referenced : mem[StaticAddr(n)] = Zero

\* C5: as long as no call on the Registry overlaps a register_counter call
\* of another thread, register_counter (as the initializer of an index,
\* called by a static initializer, or called by a thread once main runs)
\* returns count() as it was before the call, leaves count() raised by 1 and
\* the name and the instance at the index it returns; nothing else changes
\* count(); and no step removes, replaces or moves an entry: get_name(i) and
\* get_counter(i) stay what they were for every valid i.
C5_AppendOnly ==
    [][~raced' =>
         /\ \A i \in 0..(count - 1) :
              /\ get_name(i)' = get_name(i)
              /\ get_counter(i)' = get_counter(i)
         /\ count' # count =>
              /\ count' = count + 1
              /\ \/ guard' # guard
                 \/ phase = "startup" /\ direct' # direct
                 \/ \E t \in Threads : reg[t].pc = "names" /\ reg'[t].pc = "instances"
         /\ (phase = "startup" /\ direct' # direct) =>
              /\ res'.op = "register_counter"
              /\ res'.idx = count
              /\ count' = count + 1
              /\ m_names'[res'.idx + 1] = res'.name
              /\ m_instances'[res'.idx + 1] = StaticAddr(res'.name)
         /\ \A t \in Threads :
              (reg[t].pc # "idle" /\ reg'[t].pc = "idle") =>
                 /\ res'.op = "register_counter"
                 /\ res'.name = reg[t].name
                 /\ res'.idx = reg[t].was
                 /\ count' = reg[t].was + 1
                 /\ m_names'[res'.idx + 1] = res'.name
                 /\ m_instances'[res'.idx + 1] = StaticAddr(res'.name)
         /\ \A n \in Names :
              (n \in guard' /\ n \notin guard) =>
                 /\ index'[n] = count
                 /\ count' = count + 1
                 /\ m_names'[index'[n] + 1] = n
                 /\ m_instances'[index'[n] + 1] = StaticAddr(n)]_vars

\* Behind the two entries of the index initializers a static initializer
\* registered a name itself, and a thread registered one once main ran: its
\* call returned 3.  A thread then looked that entry up.  No call overlapped
\* a register_counter call.
C5_Witness ==
    /\ phase = "main"
    /\ ~raced
    /\ count = 4
    /\ direct = 2
    /\ \A n \in Referenced : index[n] < 2 /\ get_name(index[n]) = n
    /\ res.op = "get_name"
    /\ res.arg = 3
    /\ res.val = get_name(3)
    /\ res.val \in Referenced

\* C6: find returns true with the index of the name for every registered name
\* (exact, case-sensitive match) and false for every name never registered,
\* and find(get_name(i)) yields i for every i below count().
C6_FindExact ==
    /\ res.op = "find" =>
         /\ res.found <=> (\E i \in 0..(count - 1) : get_name(i) = res.name)
         /\ res.found => get_name(res.idx) = res.name
    /\ \A i \in 0..(count - 1) :
         find(get_name(i), MaxIdx) = [found |-> TRUE, idx |-> i]

\* find was asked for the name at index 2 of a Registry that also holds a
\* proper prefix of it, and found it there.
C6_Witness ==
    /\ res.op = "find"
    /\ res.found
    /\ res.idx = 2
    /\ res.name = NameAB
    /\ \E i \in 0..1 : get_name(i) = NameA

\* C7: as long as no call on the Registry overlaps a register_counter call
\* of another thread, get_name(idx) and get_counter(idx) return nullptr for
\* every idx at or above count() and the entry, which is not null, for every
\* idx below it, and the call leaves the Registry as it was.
C7_BoundsChecked ==
    [][~raced' =>
         /\ (res' # res /\ res'.op = "get_name") =>
              /\ IF res'.arg >= count THEN res'.val = Null
                 ELSE res'.val # Null /\ res'.val = m_names[res'.arg + 1]
              /\ UNCHANGED <<registry, counters>>
         /\ (res' # res /\ res'.op = "get_counter") =>
              /\ IF res'.arg >= count THEN res'.val = Null
                 ELSE res'.val # Null /\ res'.val = m_instances[res'.arg + 1]
              /\ UNCHANGED <<registry, counters>>]_vars

\* get_counter was called with the index count() of a Registry of four
\* entries, one of them registered by a static initializer itself and one by
\* a thread once main ran, and returned nullptr; no call overlapped the
\* register_counter call.
C7_Witness ==
    /\ res.op = "get_counter"
    /\ ~raced
    /\ phase = "main"
    /\ direct = 2
    /\ count = 4
    /\ res.arg = count
    /\ res.val = Null

\* The value a string of decimal digits denotes (most significant first).
RECURSIVE FromDecimal(_, _)
FromDecimal(digits, acc) ==
    IF digits = <<>> THEN acc
    ELSE LET d == CHOOSE k \in 0..9 : DigitChars[k + 1] = Head(digits)
             RECURSIVE TimesTenPlus(_, _)
             TimesTenPlus(a, carry) ==
                 IF a = <<>> THEN <<>>
                 ELSE LET p == Head(a) * 10 + carry
                      IN  <<p % Limb>> \o TimesTenPlus(Tail(a), p \div Limb)
         IN  FromDecimal(Tail(digits), TimesTenPlus(acc, d))

IsDecimal(digits) ==
    /\ digits # <<>>
    /\ \A i \in 1..Len(digits) : \E k \in 1..10 : DigitChars[k] = digits[i]

\* The text dump writes for a quiescent Registry: the entries from index i on,
\* each as name, comma, space, value in base 10, newline.
RECURSIVE ExpectedDump(_, _)
ExpectedDump(i, n) ==
    IF i >= n THEN <<>>
    ELSE get_name(i) \o <<",", " ">> \o ToDecimal(mem[get_counter(i)])
           \o <<"\n">> \o ExpectedDump(i + 1, n)

\* C8: as long as no call on the Registry overlaps a register_counter call
\* of another thread, dump emits exactly count() lines in registration
\* order: it has made count() passes of its loop when it returns, and line i
\* is get_name(i), a comma, a space, get_counter(i)->value() in base 10 and
\* a newline (names and values being those of the Registry when neither a
\* Counter nor the Registry changed since dump began); the base-10 text of
\* the value of a Counter whose line is written has digits only, no leading
\* zero, and denotes that value.
C8_DumpFormat ==
    /\ [](~raced =>
            /\ (dump_pc = "done" /\ ~dirty) =>
                  dump_idx = count /\ out = ExpectedDump(0, count)
            /\ (dump_pc = "loop" /\ ~dirty) => out = ExpectedDump(0, dump_idx)
            /\ dump_pc # "idle" =>
                 \A v \in {mem[get_counter(i)] : i \in 0..(dump_idx - 1)} :
                     LET digits == ToDecimal(v)
                     IN  /\ IsDecimal(digits)
                         /\ Len(digits) > 1 => Head(digits) # "0"
                         /\ FromDecimal(digits, Zero) = v)
    /\ [][(~raced' /\ dump_pc = "loop" /\ dump_pc' = "done") =>
            dump_idx' = count']_vars

\* dump has written a Registry of three entries, two of them for one name
\* and one Counter of several digits; nothing changed meanwhile and no call
\* overlapped a register_counter call.
C8_Witness ==
    /\ dump_pc = "done"
    /\ ~dirty
    /\ ~raced
    /\ count = 3
    /\ \E i \in 0..2, j \in 0..2 : i # j /\ get_name(i) = get_name(j)
    /\ \E i \in 0..2 : Len(ToDecimal(mem[get_counter(i)])) > 1
    /\ Len(out) > 0

\* The lines of a text: the pieces that end in a newline, without it, and
\* whatever follows the last newline.
RECURSIVE SplitLines(_, _)
SplitLines(text, line) ==
    IF text = <<>> THEN (IF line = <<>> THEN <<>> ELSE <<line>>)
    ELSE IF Head(text) = "\n" THEN <<line>> \o SplitLines(Tail(text), <<>>)
    ELSE SplitLines(Tail(text), Append(line, Head(text)))

\* A line read back as name, comma, space, decimal value; the separator is the
\* last comma followed by a space.
ParseLine(line) ==
    LET seps == {p \in 1..(Len(line) - 1) : line[p] = "," /\ line[p + 1] = " "}
    IN  IF seps = {} THEN [ok |-> FALSE, name |-> line, value |-> Zero]
        ELSE LET p == CHOOSE q \in seps : \A r \in seps : r <= q
                 digits == SubSeq(line, p + 2, Len(line))
             IN  IF IsDecimal(digits)
                   THEN [ok |-> TRUE, name |-> SubSeq(line, 1, p - 1),
                         value |-> FromDecimal(digits, Zero)]
                   ELSE [ok |-> FALSE, name |-> line, value |-> Zero]

\* The set of (name, value) pairs the lines of a dump parse to.
ParseDump(text) ==
    LET lines == SplitLines(text, <<>>)
    IN  {ParseLine(lines[k]) : k \in 1..Len(lines)}

\* The (name, value) pairs of the Registry.
RegistryPairs ==
    {[ok |-> TRUE, name |-> get_name(i), value |-> mem[get_counter(i)]] :
        i \in 0..(count - 1)}

\* C9: with no mutation during the dump, parsing the lines dump wrote recovers
\* exactly the (name, value) pairs of the Registry, for every set of
\* registered names.
C9_RoundTrip ==
    (dump_pc = "done" /\ ~dirty) => ParseDump(out) = RegistryPairs

\* C10: a Counter's value changes only by +1 and by += amount: no operation
\* of its public interface decrements, resets or sets it.
C10_OnlyIncrements ==
    [][\A a \in Addrs :
          mem'[a] # mem[a] =>
             \E arg \in {One} \cup Amounts \cup Durations :
                mem'[a] = Add64(mem[a], arg)]_vars

(***************************************************************************)
(* Counters and Timers used as objects: post-increment, add-assign of      *)
(* amounts and of durations of any unit, value() and copy construction     *)
(* (test2 of example.cc).                                                  *)
(***************************************************************************)
\* Number of calls the threads make on the Counter objects.
MaxValueCalls == 3

\* A Counter with automatic storage that is copy-constructed from another.
CopyAddr == <<"local", <<"copy">>>>
\* The Counter the calls start from: MINPROF_COUNTER(NameA) of unit u1.
SourceAddr == MINPROF_COUNTER("u1", NameA)
ValueAddrs == {SourceAddr, CopyAddr}

\* a * 1000 in value_type, limb by limb with carry.
RECURSIVE TimesThousandCarry(_, _)
TimesThousandCarry(a, carry) ==
    IF a = <<>> THEN <<>>
    ELSE LET p == Head(a) * 1000 + carry
         IN  <<p % Limb>> \o TimesThousandCarry(Tail(a), p \div Limb)

TimesThousand(a) == TimesThousandCarry(a, 0)

\* a / 1000 in value_type, truncating, from the top limb down.
RECURSIVE DivThousandRem(_, _)
DivThousandRem(a, rem) ==
    IF a = <<>> THEN <<>>
    ELSE LET n   == Len(a)
             cur == rem * Limb + a[n]
         IN  DivThousandRem(SubSeq(a, 1, n - 1), cur % 1000) \o <<cur \div 1000>>

DivThousand(a) == DivThousandRem(a, 0)

\* Variant of FromRep: a negative count is taken as zero.
FromRep_clamped(ticks) == IF ticks >= 0 THEN <<ticks, 0, 0, 0>> ELSE Zero

\* The count of a std::chrono::duration<int64_t, Period> as the common type
\* duration_cast computes in (std::uint64_t): two's complement.
FromRep(ticks) ==
    IF ticks >= 0 THEN <<ticks, 0, 0, 0>>
    ELSE <<Limb + ticks, Limb - 1, Limb - 1, Limb - 1>>

\* The units of the durations handed to Timer::operator+=.
DurationUnits == {"ms", "us", "ns", "ps"}
\* std::chrono::milliseconds{1000}, microseconds{200} and 1999 picoseconds.
DurationInputs == {<<1000, "ms">>, <<200, "us">>, <<1999, "ps">>}
\* Negative durations: milliseconds{-1}, nanoseconds{-3} and -1999 picoseconds.
NegativeInputs == {<<-1, "ms">>, <<-3, "ns">>, <<-1999, "ps">>}

\* Variant of duration_cast: the count is taken over as it is.
duration_cast_count(ticks, unit) == FromRep(ticks)

\* std::chrono::duration_cast<Timer::duration>(dur): the count times
\* Period / std::nano, computed in std::uint64_t, the division truncating.
duration_cast(ticks, unit) ==
    CASE unit = "ms" -> TimesThousand(TimesThousand(FromRep(ticks)))
      [] unit = "us" -> TimesThousand(FromRep(ticks))
      [] unit = "ns" -> FromRep(ticks)
      [] unit = "ps" -> DivThousand(FromRep(ticks))

\* Variant of fetch_add_result: the value after the add is returned.
fetch_add_result_new(old, arg) == Add64(old, arg)

\* What fetch_add returns, and with it operator++(int): the value it found.
fetch_add_result(old, arg) == old

\* Variant of copy_construct: the new Counter starts at 0.
copy_construct_zero(value) == Zero

\* Counter(const Counter& copy) : Counter{copy.value()}.
copy_construct(value) == value

\* The state main starts in when u1 has one call site, MINPROF_COUNTER(NameA):
\* the name is registered, its Counter is 0 and no copy exists.
ValueInit ==
    /\ phase = "main"
    /\ refs = [u \in Units |-> IF u = "u1" THEN {NameA} ELSE {}]
    /\ initDone = {<<"u1", NameA>>}
    /\ guard = {NameA}
    /\ index = [n \in Names |-> 0]
    /\ m_names = <<NameA>>
    /\ m_instances = <<SourceAddr>>
    /\ direct = 0
    /\ loaded = NoLoad
    /\ reg = NoReg
    /\ raced = FALSE
    /\ mem = [a \in ValueAddrs |-> IF a = SourceAddr THEN Zero ELSE Null]
    /\ total = [a \in ValueAddrs |-> Widen(Zero)]
    /\ assigned = {}
    /\ issuers = [a \in ValueAddrs |-> {}]
    /\ calls = 0
    /\ res = NoResult
    /\ dump_pc = "idle"
    /\ dumper = "none"
    /\ dump_idx = 0
    /\ out = <<>>
    /\ dirty = FALSE
    /\ returned = [a \in ValueAddrs |-> <<>>]
    /\ before = [a \in ValueAddrs |-> Zero]
    /\ seen = NoSeen
    /\ NoWatches

\* A thread may call a member of the Counter at address a: it exists.
ValueCanCall(a) ==
    /\ phase = "main"
    /\ calls < MaxValueCalls
    /\ mem[a] # Null

\* A call other than a post-increment changed the Counter at a to value: the
\* post-increments that follow start from there.
BeginSeries(a, value) ==
    /\ before' = [before EXCEPT ![a] = value]
    /\ returned' = [returned EXCEPT ![a] = <<>>]
    /\ UNCHANGED seen

\* Thread t evaluates counter++ (Counter::operator++(int)) on the Counter at a.
ValuePostIncrement(t, a) ==
    /\ ValueCanCall(a)
    /\ mem' = [mem EXCEPT ![a] = fetch_add(@, One)]
    /\ res' = [op |-> "post_increment", by |-> t, obj |-> a,
               val |-> fetch_add_result(mem[a], One)]
    /\ returned' = [returned EXCEPT ![a] = Append(@, <<t, res'.val>>)]
    /\ calls' = calls + 1
    /\ UNCHANGED <<phase, program, initDone, registry, total, assigned, issuers,
                   dumping, dirty, before, seen, watches>>

\* Thread t evaluates counter += amount (Counter::operator+=).
ValueAddAssign(t, a, amount) ==
    /\ ValueCanCall(a)
    /\ mem' = [mem EXCEPT ![a] = fetch_add(@, amount)]
    /\ res' = [op |-> "add_assign", by |-> t, obj |-> a, val |-> amount]
    /\ BeginSeries(a, mem'[a])
    /\ calls' = calls + 1
    /\ UNCHANGED <<phase, program, initDone, registry, total, assigned, issuers,
                   dumping, dirty, watches>>

\* Thread t evaluates timer += dur, dur a std::chrono::duration of that many
\* ticks of the given unit (Timer::operator+=).
TimerAddDuration(t, a, ticks, unit) ==
    /\ ValueCanCall(a)
    /\ mem' = [mem EXCEPT ![a] = fetch_add(@, duration_cast(ticks, unit))]
    /\ res' = [op |-> "timer_add", by |-> t, obj |-> a, val |-> <<ticks, unit>>]
    /\ BeginSeries(a, mem'[a])
    /\ calls' = calls + 1
    /\ UNCHANGED <<phase, program, initDone, registry, total, assigned, issuers,
                   dumping, dirty, watches>>

\* Thread t evaluates timer.value().count() (Timer::value).
TimerValue(t, a) ==
    /\ ValueCanCall(a)
    /\ res' = [op |-> "value", by |-> t, obj |-> a, val |-> mem[a]]
    /\ calls' = calls + 1
    /\ UNCHANGED <<phase, program, initDone, registry, counters, dumping, dirty,
                   values, watches>>

\* Thread t constructs the Counter at CopyAddr as a copy of the one at a.
CopyConstruct(t, a) ==
    /\ ValueCanCall(a)
    /\ mem[CopyAddr] = Null
    /\ mem' = [mem EXCEPT ![CopyAddr] = copy_construct(mem[a])]
    /\ res' = [op |-> "copy", by |-> t, obj |-> a, val |-> mem[a]]
    /\ BeginSeries(CopyAddr, mem'[CopyAddr])
    /\ calls' = calls + 1
    /\ UNCHANGED <<phase, program, initDone, registry, total, assigned, issuers,
                   dumping, dirty, watches>>

ValueNext ==
    \/ \E t \in Threads, a \in ValueAddrs : ValuePostIncrement(t, a)
    \/ \E t \in Threads, a \in ValueAddrs : ValueAddAssign(t, a, Nine)
    \/ \E t \in Threads, a \in ValueAddrs, d \in DurationInputs \cup NegativeInputs :
          TimerAddDuration(t, a, d[1], d[2])
    \/ \E t \in Threads, a \in ValueAddrs : TimerValue(t, a)
    \/ \E t \in Threads : CopyConstruct(t, SourceAddr)

ValueSpec == ValueInit /\ [][ValueNext]_vars

(***************************************************************************)
(* Stopwatch, Scopewatch and Section over a clock (test2, tight).          *)
(***************************************************************************)
\* The latest reading of the clock, in nanoseconds since its epoch.
MaxClock == 3
\* Number of calls made on Stopwatches, Scopewatches and Sections.
MaxWatchCalls == 4
\* Number of calls after which a Stopwatch may still be constructed as the
\* source of an assignment, or assigned.
MaxAssignCalls == 5
\* The nanoseconds that pass inside a constructor after it has read the
\* clock, and inside a destructor before it reads the clock.
Delays == {0, 1}

\* time_point{}.time_since_epoch().count(): the clock's epoch.
Epoch == 0

\* MINPROF_SECTION(name): the names of the Counter and of the Timer.
SectionBase == NameA
SectionCounterName(base) == base \o <<"|", "C">>
SectionTimerName(base) == base \o <<"|", "T">>
SectionCounter == MINPROF_COUNTER("u1", SectionCounterName(SectionBase))
SectionTimer == MINPROF_TIMER("u1", SectionTimerName(SectionBase))
WatchAddrs == {LocalAddr, SectionCounter, SectionTimer}

\* minprof::Stopwatch sw{timer} of test2, a Stopwatch cp{sw} that is
\* copy-constructed from it, a Stopwatch other{MINPROF_TIMER(name "|T")} on
\* the Timer of the section, the Scopewatch or Section in the scope a
\* thread is executing, and a Stopwatch own{MINPROF_TIMER(name "|T")} that a
\* thread constructs for itself and that no other thread uses.
ManualWatch == <<"sw">>
CopyWatch == <<"cp">>
OtherWatch == <<"other">>
HandWatches == {ManualWatch, CopyWatch}
ScopeObj(t) == <<"scope", t>>
OwnWatch(t) == <<"own", t>>
WatchObjs == HandWatches \cup {OtherWatch} \cup {ScopeObj(t) : t \in Threads}
               \cup {OwnWatch(t) : t \in Threads}
ScopeKinds == {"Scopewatch", "Section"}
\* The ways control leaves the scope of a Scopewatch or Section.
ExitPaths == {"fall_through", "return", "unwind"}

\* Stopwatch::m_par, bound at construction: test2's timer for sw and, by
\* m_par{copy.m_par}, for its copy; MINPROF_TIMER(name "|T") for other, for
\* the scoped objects and for the Stopwatches the threads construct for
\* themselves.
m_par(w) == IF w \in HandWatches THEN LocalAddr ELSE SectionTimer

\* No run has begun.
NoRun == [begun |-> FALSE, open |-> 0, from |-> 0, base |-> Zero]

\* The orders in which static initialization registers the two names of the
\* section: the order in which the program's call sites instantiate
\* StaticCounter<Name>.  MINPROF_SECTION(name) alone names the Counter first;
\* in tight() the Scopewatch on MINPROF_TIMER(name "|T") comes before
\* MINPROF_SECTION(name), and the Timer is registered first.
RegistrationOrders ==
    { <<SectionCounterName(SectionBase), SectionTimerName(SectionBase)>>,
      <<SectionTimerName(SectionBase), SectionCounterName(SectionBase)>> }

\* The state a program is in when main runs and its call sites name the
\* Counter and the Timer of MINPROF_SECTION(NameA): both names are registered
\* in one of the two orders, the Timer of the section holds `held`, every
\* other Counter is 0 and no Stopwatch exists.  The build evaluates assert or
\* it does not.
WatchStart(held) ==
    /\ phase = "main"
    /\ refs = [u \in Units |->
                 IF u = "u1" THEN {SectionCounterName(SectionBase),
                                   SectionTimerName(SectionBase)}
                 ELSE {}]
    /\ initDone = {<<"u1", n>> : n \in refs["u1"]}
    /\ guard = refs["u1"]
    /\ m_names \in RegistrationOrders
    /\ m_instances = <<MINPROF_COUNTER("u1", m_names[1]),
                       MINPROF_COUNTER("u1", m_names[2])>>
    /\ index = [n \in refs["u1"] |-> IF n = m_names[1] THEN 0 ELSE 1]
    /\ direct = 0
    /\ loaded = NoLoad
    /\ reg = NoReg
    /\ raced = FALSE
    /\ mem = [a \in WatchAddrs |-> IF a = SectionTimer THEN held ELSE Zero]
    /\ total = [a \in WatchAddrs |-> Widen(mem[a])]
    /\ assigned = {}
    /\ issuers = [a \in WatchAddrs |-> {}]
    /\ calls = 0
    /\ res = NoResult
    /\ dump_pc = "idle"
    /\ dumper = "none"
    /\ dump_idx = 0
    /\ out = <<>>
    /\ dirty = FALSE
    /\ NoValues
    /\ clock = 1
    /\ asserts \in BOOLEAN
    /\ m_start = [w \in WatchObjs |-> Epoch]
    /\ kind = [w \in WatchObjs |-> "none"]
    /\ last = [w \in WatchObjs |-> "none"]
    /\ elapsed = [w \in WatchObjs |-> 0]
    /\ alive = [w \in WatchObjs |-> 0]
    /\ retired = [w \in WatchObjs |-> <<>>]
    /\ entries = 0
    /\ abandoned = [w \in WatchObjs |-> 0]
    /\ entering = {}
    /\ run = [w \in WatchObjs |-> NoRun]
    /\ assigning = NoAssign
    /\ splitting = [w \in WatchObjs |-> NoSplit]

\* What the rest of the program keeps while Stopwatches are used.
\* The program has added to none of its Counters yet.
WatchInit == WatchStart(Zero)

SplitFrame ==
    UNCHANGED <<program, initDone, registry, assigned, issuers, dumping, dirty,
                values, asserts, assigning>>

\* What a call keeps that is no part of a split().
WatchFrame ==
    /\ SplitFrame
    /\ UNCHANGED splitting

\* A run is the time from a start(), or a construction with started = true,
\* to the stop() that follows.  The history of a run: whether a start() began
\* it and no stop() has ended it (begun), the nanoseconds since that start()
\* read the clock (open), how many durations the object had retired by then
\* (from) and what the Timer held then (base).
BeginRun(w) == [begun |-> TRUE, open |-> 0, from |-> Len(retired[w]),
                base |-> mem[m_par(w)]]

\* d nanoseconds later the runs are d nanoseconds older.
Aged(d) ==
    [w \in WatchObjs |->
        IF run[w].begun THEN [run[w] EXCEPT !.open = @ + d] ELSE run[w]]

\* The objects whose split() is under way, and those among them that are
\* inside their destructor: their lifetime has ended.
Splitting == {w \in WatchObjs : splitting[w].on}
Exiting == {w \in Splitting : splitting[w].op \in ExitPaths}

\* A call may be made: the program runs and has calls left, those that are
\* under way counted.
WatchCanCall ==
    /\ phase = "main"
    /\ calls + Cardinality(Splitting) < MaxWatchCalls

\* The thread that uses the Stopwatches sw, cp and other may make a call: it
\* is not inside Stopwatch::operator=.
HandCanCall ==
    /\ WatchCanCall
    /\ ~assigning.on

\* That thread may construct the source of an assignment or assign.
AssignCanCall ==
    /\ phase = "main"
    /\ calls + Cardinality(Splitting) < MaxAssignCalls
    /\ ~assigning.on

\* The calls after which an object has an interval open.
OpeningCalls == {"construct_started", "start", "split", "assign_started",
                 "copy_started"}

\* d nanoseconds pass; the objects in `fresh` have just read the clock, the
\* constructor of those in `made` has just returned and the lifetime of those
\* in `ended` had ended before.  The interval of an object that is inside
\* split() ended when it read the clock.
PassTime(d, fresh, made, ended) ==
    /\ clock + d <= MaxClock
    /\ clock' = clock + d
    /\ elapsed' = [w \in WatchObjs |->
                     IF w \in fresh THEN d
                     ELSE IF last[w] \in OpeningCalls /\ w \notin Splitting
                        THEN elapsed[w] + d
                     ELSE elapsed[w]]
    /\ alive' = [w \in WatchObjs |->
                   IF w \in made THEN 0
                   ELSE IF kind[w] # "none" /\ w \notin ended THEN alive[w] + d
                   ELSE alive[w]]

\* Time passes while no call is made.
Tick ==
    /\ phase = "main"
    /\ PassTime(1, {}, {}, Exiting)
    /\ run' = Aged(1)
    /\ UNCHANGED <<phase, mem, total, calls, res, m_start, kind, last, retired,
                   entries, abandoned, entering>>
    /\ WatchFrame

\* Variant of assert_running: the contract is not checked.
assert_running_unchecked(tp) == TRUE

\* assert(m_start.time_since_epoch().count() > 0), where the build evaluates
\* assert.
assert_running(tp) == asserts => tp > Epoch

\* Variant of constructed_start: the constructor never starts the Stopwatch.
constructed_start_idle(started, now) == Epoch

\* Stopwatch(par, started): m_start{} and then, if started, start().
constructed_start(started, now) == IF started THEN now ELSE Epoch

\* Variant of start_time: a running Stopwatch keeps its start time.
start_time_keep(old, now) == IF old > Epoch THEN old ELSE now

\* Stopwatch::start(): m_start = Clock::now().
start_time(old, now) == now

\* Variant of native_dur: the difference in ticks of two nanoseconds.
native_dur_truncated(end, start) == (end - start) \div 2

\* Variant of native_dur: the time since the epoch.
native_dur_epoch(end, start) == end

\* split(): const auto native_dur = end - m_start.
native_dur(end, start) == end - start

\* Variant of split_start: the next interval begins a nanosecond after the
\* clock reading.
split_start_late(end) == end + 1

\* Variant of split_start: split() leaves the Stopwatch idle.
split_start_idle(end) == Epoch

\* split(): m_start = end.
split_start(end) == end

\* What a call that failed an assertion leaves instead of a return value.
AssertionFailed == <<"assertion failed">>

\* The failed assertion ends the program.
Abort(w, op) ==
    /\ phase' = "aborted"
    /\ res' = [op |-> op, obj |-> w, val |-> AssertionFailed]
    /\ UNCHANGED <<mem, total, m_start, kind, last, retired, entries, abandoned,
                   clock, elapsed, alive, entering, run>>

\* Variant of timer_add: the read and the write of the Timer are two
\* operations, and a value another Stopwatch stored in between is kept.
timer_add_lost(old, dur) == IF old = Zero THEN dur ELSE old

\* Timer::operator+=(duration): Counter::operator+=(dur.count()), one atomic
\* fetch_add.
timer_add(old, dur) == fetch_add(old, dur)

\* Stopwatch::split() from the clock reading end on: the duration since
\* m_start goes to the Timer, m_start becomes next, and the duration is
\* returned.  total keeps the exact sum of the durations returned for each
\* Timer.
split(w, op, end, next) ==
    LET dur == duration_cast(native_dur(end, m_start[w]), "ns")
    IN  /\ mem' = [mem EXCEPT ![m_par(w)] = timer_add(@, dur)]
        /\ total' = [total EXCEPT ![m_par(w)] = AddWide(@, dur)]
        /\ m_start' = [m_start EXCEPT ![w] = next]
        /\ retired' = [retired EXCEPT ![w] = Append(@, dur)]
        /\ res' = [op |-> op, obj |-> w, val |-> dur]

\* Stopwatch(par, started) for the object w.
Construct(w, started) ==
    /\ kind[w] = "none"
    /\ kind' = [kind EXCEPT ![w] = "Stopwatch"]
    /\ m_start' = [m_start EXCEPT ![w] = constructed_start(started, clock)]
    /\ last' = [last EXCEPT ![w] =
                  IF started THEN "construct_started" ELSE "construct"]
    /\ res' = [op |-> "construct", obj |-> w, val |-> started]
    /\ run' = [run EXCEPT ![w] = IF started THEN BeginRun(w) ELSE NoRun]
    /\ PassTime(0, {w}, {w}, {})
    /\ calls' = calls + 1
    /\ UNCHANGED <<phase, mem, total, retired, entries, abandoned, entering>>
    /\ WatchFrame

\* minprof::Stopwatch sw{timer, started}.
SwConstruct(started) ==
    /\ HandCanCall
    /\ Construct(ManualWatch, started)

\* minprof::Stopwatch other{MINPROF_TIMER(name "|T"), started}.
SwConstructOther(started) ==
    /\ AssignCanCall
    /\ Construct(OtherWatch, started)

\* w.start() on the Stopwatch sw or on its copy.
SwStart(w) ==
    /\ HandCanCall
    /\ kind[w] = "Stopwatch"
    /\ m_start' = [m_start EXCEPT ![w] = start_time(@, clock)]
    /\ assert_running(m_start'[w])
    /\ last' = [last EXCEPT ![w] = "start"]
    /\ abandoned' = [abandoned EXCEPT ![w] =
                       IF last[w] \in OpeningCalls
                          THEN @ + elapsed[w] ELSE @]
    /\ res' = [op |-> "start", obj |-> w, val |-> Null]
    /\ run' = [run EXCEPT ![w] = BeginRun(w)]
    /\ PassTime(0, {w}, {}, {})
    /\ calls' = calls + 1
    /\ UNCHANGED <<phase, mem, total, kind, retired, entries, entering>>
    /\ WatchFrame

\* w.split().
SwSplit(w) ==
    /\ HandCanCall
    /\ kind[w] = "Stopwatch"
    /\ IF assert_running(m_start[w])
          THEN /\ split(w, "split", clock, split_start(clock))
               /\ last' = [last EXCEPT ![w] = "split"]
               /\ PassTime(0, {w}, {}, {})
               /\ UNCHANGED <<phase, kind, entries, abandoned, entering, run>>
          ELSE Abort(w, "split")
    /\ calls' = calls + 1
    /\ WatchFrame

\* w.stop(): split() and then m_start = time_point{}.
SwStop(w) ==
    /\ HandCanCall
    /\ kind[w] = "Stopwatch"
    /\ IF assert_running(m_start[w])
          THEN /\ split(w, "stop", clock, Epoch)
               /\ last' = [last EXCEPT ![w] = "stop"]
               /\ run' = [run EXCEPT ![w].begun = FALSE]
               /\ PassTime(0, {w}, {}, {})
               /\ UNCHANGED <<phase, kind, entries, abandoned, entering>>
          ELSE Abort(w, "stop")
    /\ calls' = calls + 1
    /\ WatchFrame

\* Stopwatch(const Stopwatch& copy): m_start{copy.m_start}.
copied_start(start) == start

\* minprof::Stopwatch cp{sw}: the copy is bound to the Timer of sw and holds
\* the start time of sw, so it has the interval open that sw has open.  The
\* clock is not read.
SwCopy ==
    /\ HandCanCall
    /\ kind[ManualWatch] = "Stopwatch"
    /\ kind[CopyWatch] = "none"
    /\ kind' = [kind EXCEPT ![CopyWatch] = "Stopwatch"]
    /\ m_start' = [m_start EXCEPT ![CopyWatch] = copied_start(m_start[ManualWatch])]
    /\ last' = [last EXCEPT ![CopyWatch] =
                  IF m_start'[CopyWatch] > Epoch THEN "copy_started" ELSE "copy"]
    /\ elapsed' = [elapsed EXCEPT ![CopyWatch] = elapsed[ManualWatch]]
    /\ alive' = [alive EXCEPT ![CopyWatch] = alive[ManualWatch]]
    /\ retired' = [retired EXCEPT ![CopyWatch] = <<>>]
    /\ abandoned' = [abandoned EXCEPT ![CopyWatch] = 0]
    /\ run' = [run EXCEPT ![CopyWatch] = NoRun]
    /\ res' = [op |-> "copy", obj |-> CopyWatch, val |-> m_start[ManualWatch]]
    /\ calls' = calls + 1
    /\ UNCHANGED <<phase, mem, total, clock, entries, entering>>
    /\ WatchFrame

\* Variant of section_entry: the body of Section's constructor is empty.
section_entry_none(k, c) == c

\* The body of the constructor: { ++c; } for a Section, {} for a Scopewatch.
section_entry(k, c) == IF k = "Section" THEN fetch_add(c, One) ELSE c

\* Variant of destructor_runs: unwinding skips the destructor.
destructor_runs_no_unwind(path) == path # "unwind"

\* Leaving the scope on any path ends the object's lifetime: ~Scopewatch()
\* runs.
destructor_runs(path) == path \in ExitPaths

\* Thread t enters a scope that declares a Scopewatch (MINPROF_TIMED) or a
\* Section (MINPROF_SECTION).  The constructor's initializer list comes first:
\* Scopewatch(par) : Stopwatch{par, true} reads the clock and stores it in
\* m_start; the body of the constructor is reached later.
ScopeEnter(t, k) ==
    LET w == ScopeObj(t)
    IN  /\ WatchCanCall
        /\ kind[w] = "none"
        /\ w \notin Splitting
        /\ kind' = [kind EXCEPT ![w] = k]
        /\ m_start' = [m_start EXCEPT ![w] = constructed_start(TRUE, clock)]
        /\ assert_running(m_start'[w])
        /\ entering' = entering \cup {w}
        /\ abandoned' = [abandoned EXCEPT ![w] = 0]
        /\ last' = [last EXCEPT ![w] = "construct_started"]
        /\ retired' = [retired EXCEPT ![w] = <<>>]
        /\ res' = [op |-> "initializers", obj |-> w, val |-> k]
        /\ run' = [run EXCEPT ![w] = [BeginRun(w) EXCEPT !.from = 0]]
        /\ PassTime(0, {w}, {}, {})
        /\ calls' = calls + 1
        /\ UNCHANGED <<phase, mem, total, entries>>
        /\ WatchFrame

\* The body of the constructor that thread t is in runs, { ++c; } for a
\* Section, and the constructor returns.
ScopeBody(t) ==
    LET w == ScopeObj(t)
    IN  /\ phase = "main"
        /\ w \in entering
        /\ entering' = entering \ {w}
        /\ mem' = [mem EXCEPT ![SectionCounter] = section_entry(kind[w], @)]
        /\ entries' = IF kind[w] = "Section" THEN entries + 1 ELSE entries
        /\ res' = [op |-> "enter", obj |-> w, val |-> kind[w]]
        /\ PassTime(0, {}, {w}, {})
        /\ UNCHANGED <<phase, total, calls, m_start, kind, last, retired, abandoned,
                       run>>
        /\ WatchFrame

\* Thread t leaves the scope on the given path, which ends the lifetime of
\* the object: ~Scopewatch() calls stop(), stop() calls split(), and d
\* nanoseconds after the lifetime ended split() has passed its assertion and
\* read the clock.  What split() does with the reading is a step of its own,
\* before which other threads run and time passes.
ScopeExit(t, path, d) ==
    LET w == ScopeObj(t)
    IN  /\ WatchCanCall
        /\ kind[w] \in ScopeKinds
        /\ w \notin entering
        /\ w \notin Splitting
        /\ IF destructor_runs(path) /\ assert_running(m_start[w])
              THEN /\ splitting' = [splitting EXCEPT
                                      ![w] = [on |-> TRUE, op |-> path,
                                              end |-> clock + d]]
                   /\ UNCHANGED <<phase, res, kind, last, calls>>
              ELSE /\ IF destructor_runs(path)
                         THEN /\ phase' = "aborted"
                              /\ res' = [op |-> "exit", obj |-> w,
                                         val |-> AssertionFailed]
                         ELSE /\ res' = [op |-> "exit", obj |-> w, val |-> Null]
                              /\ UNCHANGED phase
                   /\ kind' = [kind EXCEPT ![w] = "none"]
                   /\ last' = [last EXCEPT ![w] = path]
                   /\ calls' = calls + 1
                   /\ UNCHANGED splitting
        /\ run' = [Aged(d) EXCEPT ![w].begun = FALSE]
        /\ PassTime(d, {}, {}, {w} \cup Exiting)
        /\ UNCHANGED <<mem, total, m_start, retired, entries, abandoned, entering>>
        /\ SplitFrame

\* The destructor that thread t is inside goes on from the clock reading:
\* split() adds the duration to the Timer, stop() leaves m_start at
\* time_point{}, and the object is gone.
ScopeRetire(t) ==
    LET w == ScopeObj(t)
    IN  /\ phase = "main"
        /\ w \in Exiting
        /\ split(w, "exit", splitting[w].end, Epoch)
        /\ kind' = [kind EXCEPT ![w] = "none"]
        /\ last' = [last EXCEPT ![w] = splitting[w].op]
        /\ splitting' = [splitting EXCEPT ![w] = NoSplit]
        /\ calls' = calls + 1
        /\ UNCHANGED <<phase, clock, elapsed, alive, entries, abandoned, entering,
                       run>>
        /\ SplitFrame

\* minprof::Stopwatch own{MINPROF_TIMER(name "|T"), started} in thread t.
OwnConstruct(t, started) ==
    /\ WatchCanCall
    /\ Construct(OwnWatch(t), started)

\* own.start() in thread t: the call touches nothing but the object.
OwnStart(t) ==
    /\ OwnWatch(t) \notin Splitting
    /\ SwStart(OwnWatch(t))

\* own.split() or own.stop() in thread t as far as the clock reading: the
\* assertion and const auto end = Clock::now().  The other thread runs and
\* time passes before the call goes on.
OwnSplit(t, op) ==
    LET w == OwnWatch(t)
    IN  /\ WatchCanCall
        /\ kind[w] = "Stopwatch"
        /\ w \notin Splitting
        /\ IF assert_running(m_start[w])
              THEN /\ splitting' = [splitting EXCEPT
                                      ![w] = [on |-> TRUE, op |-> op, end |-> clock]]
                   /\ UNCHANGED <<phase, res, calls, mem, total, m_start, kind,
                                  last, retired, entries, abandoned, clock,
                                  elapsed, alive, entering, run>>
              ELSE /\ Abort(w, op)
                   /\ calls' = calls + 1
                   /\ UNCHANGED splitting
        /\ SplitFrame

\* The call goes on from the clock reading: m_par += dur, m_start = end and,
\* in stop(), m_start = time_point{}; the duration is returned.
OwnRetire(t) ==
    LET w   == OwnWatch(t)
        op  == splitting[w].op
        end == splitting[w].end
    IN  /\ phase = "main"
        /\ w \in Splitting
        /\ split(w, op, end, IF op = "split" THEN split_start(end) ELSE Epoch)
        /\ last' = [last EXCEPT ![w] = op]
        /\ elapsed' = [elapsed EXCEPT ![w] = clock - end]
        /\ run' = IF op = "stop" THEN [run EXCEPT ![w].begun = FALSE] ELSE run
        /\ splitting' = [splitting EXCEPT ![w] = NoSplit]
        /\ calls' = calls + 1
        /\ UNCHANGED <<phase, clock, alive, kind, entries, abandoned, entering>>
        /\ SplitFrame

\* A program that uses a Stopwatch by hand, as test2() of example.cc does,
\* and a copy of that Stopwatch.
WatchNext ==
    \/ Tick
    \/ \E started \in BOOLEAN : SwConstruct(started)
    \/ SwCopy
    \/ \E w \in HandWatches : SwStart(w)
    \/ \E w \in HandWatches : SwSplit(w)
    \/ \E w \in HandWatches : SwStop(w)

WatchSpec == WatchInit /\ [][WatchNext]_vars

\* A program whose threads enter and leave timed scopes, as tight() of
\* example.cc does.
ScopeNext ==
    \/ Tick
    \/ \E t \in Threads, k \in ScopeKinds : ScopeEnter(t, k)
    \/ \E t \in Threads : ScopeBody(t)
    \/ \E t \in Threads, path \in ExitPaths, d \in Delays : ScopeExit(t, path, d)
    \/ \E t \in Threads : ScopeRetire(t)

ScopeSpec == WatchInit /\ [][ScopeNext]_vars

\* The Timer of the section holds what the program has added to it before:
\* nothing, or 2^64 - 1 nanoseconds.
HeldBefore == {Zero, MaxU64}

\* The state at which the threads of such a program begin: the initializer
\* of the section's Counter ran before that of its Timer.
SharedInit ==
    /\ \E held \in HeldBefore : WatchStart(held)
    /\ index[SectionCounterName(SectionBase)] = 0

\* A program whose threads each use a Stopwatch of their own on the Timer of
\* the section.
SharedNext ==
    \/ Tick
    \/ \E t \in Threads, started \in BOOLEAN : OwnConstruct(t, started)
    \/ \E t \in Threads : OwnStart(t)
    \/ \E t \in Threads, op \in {"split", "stop"} : OwnSplit(t, op)
    \/ \E t \in Threads : OwnRetire(t)

SharedSpec == SharedInit /\ [][SharedNext]_vars

\* dst = src begins: Stopwatch::operator=(const Stopwatch& copy) executes
\* m_par = copy.m_par.  m_par is a Timer&, so this is Timer::operator= on the
\* Timer that dst is bound to, and Counter::operator= first converts its
\* argument to a value: the Timer of src is loaded.  src is an object the
\* program constructed before (operator=(Stopwatch&&) is deleted, so a
\* temporary cannot be assigned): the copy of sw, or the Stopwatch other on
\* the Timer of the section.
SwAssignLoad(dst, src) ==
    /\ AssignCanCall
    /\ dst # src
    /\ kind[dst] = "Stopwatch"
    /\ kind[src] = "Stopwatch"
    /\ assigning' = [on |-> TRUE, dst |-> dst, src |-> src, val |-> mem[m_par(src)]]
    /\ calls' = calls + 1
    /\ UNCHANGED <<phase, mem, total, res, clock, m_start, kind, last, elapsed,
                   alive, retired, entries, abandoned, entering, run>>
    /\ UNCHANGED <<program, initDone, registry, assigned, issuers, dumping, dirty,
                   values, asserts, splitting>>

\* The operator= under way goes on: the value it loaded is stored in the
\* Timer of dst, and m_start = copy.m_start gives dst the start time of src,
\* and with it the interval that src has open.
SwAssignStore ==
    LET dst == assigning.dst
        src == assigning.src
    IN  /\ phase = "main"
        /\ assigning.on
        /\ mem' = [mem EXCEPT ![m_par(dst)] = copy_assign(@, assigning.val)]
        /\ total' = [total EXCEPT ![m_par(dst)] = Widen(assigning.val)]
        /\ assigned' = assigned \cup {m_par(dst)}
        /\ m_start' = [m_start EXCEPT ![dst] = m_start[src]]
        /\ last' = [last EXCEPT ![dst] =
                      IF m_start[src] > Epoch THEN "assign_started" ELSE "assign"]
        /\ abandoned' = [abandoned EXCEPT ![dst] =
                           IF last[dst] \in OpeningCalls
                              THEN @ + elapsed[dst] ELSE @]
        /\ elapsed' = [elapsed EXCEPT ![dst] = elapsed[src]]
        /\ run' = [run EXCEPT ![dst] = NoRun]
        /\ res' = [op |-> "assign", obj |-> dst, val |-> m_start[src]]
        /\ assigning' = NoAssign
        /\ UNCHANGED <<phase, calls, kind, retired, entries, entering, clock,
                       alive>>
        /\ UNCHANGED <<program, initDone, registry, issuers, dumping, dirty, values,
                       asserts, splitting>>

\* A program that also assigns to the Stopwatches it uses by hand while its
\* threads enter MINPROF_TIMED(name "|T") scopes and leave them at the closing
\* brace.
AssignNext ==
    \/ WatchNext
    \/ \E t \in Threads : ScopeEnter(t, "Scopewatch")
    \/ \E t \in Threads : ScopeBody(t)
    \/ \E t \in Threads, d \in Delays : ScopeExit(t, "fall_through", d)
    \/ \E t \in Threads : ScopeRetire(t)
    \/ \E started \in BOOLEAN : SwConstructOther(started)
    \/ \E dst \in HandWatches, src \in HandWatches \cup {OtherWatch} :
          SwAssignLoad(dst, src)
    \/ SwAssignStore

AssignSpec == WatchInit /\ [][AssignNext]_vars

\* C11: the post-increments made on a Counter since it held the value v, by
\* whatever threads and in whatever order, returned v, v+1, ..., v+n-1 in the
\* order they took effect (so each value once), the Counter now holds v+n,
\* and the latest one returned the last of these values.
C11_PostIncrementReturnsPrevious ==
    \A a \in ValueAddrs :
        /\ \A i \in 1..Len(returned[a]) :
              returned[a][i][2] = Add64(before[a], FromRep(i - 1))
        /\ mem[a] # Null =>
              mem[a] = Add64(before[a], FromRep(Len(returned[a])))
        /\ (res.op = "post_increment" /\ res.obj = a) =>
              /\ returned[a] # <<>>
              /\ returned[a][Len(returned[a])] = <<res.by, res.val>>

\* After += 9 on the fresh Counter two threads post-incremented it: one got
\* 9, the other 10, and the Counter holds 11.
C11_Witness ==
    /\ mem[SourceAddr] = <<11, 0, 0, 0>>
    /\ before[SourceAddr] = Nine
    /\ Len(returned[SourceAddr]) = 2
    /\ returned[SourceAddr][1][1] # returned[SourceAddr][2][1]
    /\ returned[SourceAddr][1][2] = Nine
    /\ res.op = "post_increment"
    /\ res.val = <<10, 0, 0, 0>>

\* The whole nanoseconds in the durations of DurationInputs: 1000 ms are
\* 1,000,000,000 ns, 200 us are 200,000 ns (3 * 2^16 + 3392) and 1999 ps are
\* 1 ns, the 999 ps beyond it dropped.
C18_Nanoseconds(d) ==
    CASE d = <<1000, "ms">> -> <<51712, 15258, 0, 0>>
      [] d = <<200, "us">> -> <<3392, 3, 0, 0>>
      [] d = <<1999, "ps">> -> <<1, 0, 0, 0>>

\* C18: timer += duration, the duration not negative, adds exactly the whole
\* nanoseconds in the duration to the Timer's count, a part of a nanosecond
\* being dropped, whatever the unit of the duration; and Timer::value() returns
\* the stored count.
C18_WholeNanoseconds ==
    /\ [](res.op = "value" => res.val = mem[res.obj])
    /\ [][(calls' # calls /\ res'.op = "timer_add" /\ res'.val[1] >= 0) =>
             mem'[res'.obj] = Add64(mem[res'.obj], C18_Nanoseconds(res'.val))]_vars

\* 1000 ms and then 200 us were added to the fresh Timer: it holds
\* 1,000,200,000 = 15261 * 2^16 + 55104.
C18_Witness ==
    /\ calls = 2
    /\ res.op = "timer_add"
    /\ res.obj = SourceAddr
    /\ res.val = <<200, "us">>
    /\ mem[SourceAddr] = <<55104, 15261, 0, 0>>

\* C20: copy construction gives the new Counter the value the source holds
\* at that moment and changes neither the source nor the Registry; from then
\* on a call on the source leaves the copy as it is, a call on the copy
\* leaves the source as it is, and the copy is never in the Registry.
C20_CopyIsSnapshot ==
    /\ [](\A i \in 1..Len(m_instances) : m_instances[i] # CopyAddr)
    /\ [][calls' # calls =>
            /\ res'.op = "copy" =>
                 /\ mem[CopyAddr] = Null
                 /\ mem'[CopyAddr] = mem[res'.obj]
                 /\ mem'[res'.obj] = mem[res'.obj]
                 /\ UNCHANGED registry
            /\ (res'.op # "copy" /\ res'.obj = SourceAddr) =>
                 mem'[CopyAddr] = mem[CopyAddr]
            /\ (res'.op # "copy" /\ res'.obj = CopyAddr) =>
                 mem'[SourceAddr] = mem[SourceAddr]]_vars

\* The source was copied while it held 9 and was incremented afterwards: it
\* holds 10, the copy still 9, and the Registry still has its one entry.
C20_Witness ==
    /\ mem[SourceAddr] = <<10, 0, 0, 0>>
    /\ mem[CopyAddr] = Nine
    /\ res.op = "post_increment"
    /\ res.obj = SourceAddr
    /\ m_instances = <<SourceAddr>>

\* A Stopwatch is Running when it holds a start time, Idle when it holds the
\* default time_point.
Running(w) == m_start[w] > Epoch

\* C12: a Stopwatch is Running exactly when the latest call made on it was
\* start() or split() or its construction with started = true, and Idle
\* exactly when it was stop() or its construction with started = false; a
\* Stopwatch that no call was made on since it was copy-constructed is in the
\* state its source was in when it was copied.
C12_StateMachine ==
    /\ [](\A w \in WatchObjs :
            kind[w] = "Stopwatch" =>
                /\ Running(w) <=> last[w] \in {"construct_started", "start", "split",
                                                "copy_started"}
                /\ ~Running(w) <=> last[w] \in {"construct", "stop", "copy"})
    /\ [][(calls' # calls /\ res'.op = "copy") =>
            /\ (m_start'[res'.obj] > Epoch) <=> Running(ManualWatch)
            /\ m_start'[res'.obj] = m_start[ManualWatch]
            /\ m_start'[ManualWatch] = m_start[ManualWatch]]_vars

\* The Stopwatch was constructed idle, started, split and stopped, or
\* constructed started, split and stopped: it is Idle again and has retired
\* two intervals.
C12_Witness ==
    /\ kind[ManualWatch] = "Stopwatch"
    /\ last[ManualWatch] = "stop"
    /\ ~Running(ManualWatch)
    /\ Len(retired[ManualWatch]) = 2

\* C13: a split() or stop() made on a Running Stopwatch returns the time
\* that has passed since its latest start() or split() (for a copy that has
\* made neither yet: since that of its source), and the call raises the bound
\* Timer by exactly the returned duration.
C13_RetiresElapsed ==
    [][\A w \in HandWatches :
          (/\ calls' # calls
           /\ res'.obj = w
           /\ res'.op \in {"split", "stop"}
           /\ Running(w)) =>
              /\ phase' = "main"
              /\ res'.val = FromRep(elapsed[w])
              /\ mem'[m_par(w)] = Add64(mem[m_par(w)], res'.val)
              /\ retired'[w] = Append(retired[w], res'.val)]_vars

\* The Stopwatch was started at construction and copied one nanosecond later;
\* after another nanosecond the copy was stopped and then the Stopwatch: both
\* calls returned 2, each raised the Timer by 2, and the Timer holds 4.
C13_Witness ==
    /\ res.op = "stop"
    /\ res.obj = ManualWatch
    /\ res.val = <<2, 0, 0, 0>>
    /\ retired[ManualWatch] = <<(<<2, 0, 0, 0>>)>>
    /\ retired[CopyWatch] = <<(<<2, 0, 0, 0>>)>>
    /\ last[CopyWatch] = "stop"
    /\ clock = 3
    /\ mem[m_par(ManualWatch)] = <<4, 0, 0, 0>>

\* The nanoseconds in the durations a Stopwatch has retired.
RECURSIVE C14_Retired(_)
C14_Retired(durs) ==
    IF durs = <<>> THEN 0 ELSE Head(durs)[1] + C14_Retired(Tail(durs))

\* C14: start() changes neither the bound Timer nor what the Stopwatch has
\* retired, also when it is called on a Running Stopwatch; the split() or
\* stop() that follows a start() retires one duration, the time since that
\* start(); and where assert is evaluated what a Stopwatch has retired never
\* exceeds its lifetime (for a copy: that of the Stopwatch it was copied from)
\* less the time its start() calls abandoned and less the interval still
\* open.
C14_RestartAbandons ==
    /\ [](asserts =>
            \A w \in HandWatches :
                C14_Retired(retired[w]) + abandoned[w]
                  + (IF last[w] \in OpeningCalls THEN elapsed[w] ELSE 0)
                  <= alive[w])
    /\ [][\A w \in HandWatches :
            (calls' # calls /\ res'.obj = w) =>
              /\ res'.op = "start" =>
                   /\ mem' = mem
                   /\ retired' = retired
                   /\ Running(w)'
              /\ (res'.op \in {"split", "stop"} /\ last[w] = "start") =>
                   /\ res'.val = FromRep(elapsed[w])
                   /\ mem'[m_par(w)] = Add64(mem[m_par(w)], FromRep(elapsed[w]))
                   /\ retired'[w] = Append(retired[w], res'.val)]_vars

\* The Stopwatch ran for one nanosecond when start() was called again, and
\* was split one nanosecond later: the split returned 1, the Timer holds 1
\* and the first nanosecond is abandoned.
C14_Witness ==
    /\ res.op = "split"
    /\ res.obj = ManualWatch
    /\ res.val = One
    /\ abandoned[ManualWatch] = 1
    /\ retired[ManualWatch] = <<One>>
    /\ mem[m_par(ManualWatch)] = One
    /\ alive[ManualWatch] = 2

\* C15: while a Scopewatch (or Section) is alive it is Running and has
\* retired nothing; once its scope was left, on whichever path, it has
\* retired exactly one duration; constructing it leaves the Timer alone and
\* leaving the scope adds that one duration to the Timer.
C15_RetiresOnceAtExit ==
    /\ [](\A t \in Threads :
            /\ kind[ScopeObj(t)] \in ScopeKinds =>
                 /\ Running(ScopeObj(t))
                 /\ retired[ScopeObj(t)] = <<>>
            /\ (kind[ScopeObj(t)] = "none" /\ last[ScopeObj(t)] \in ExitPaths) =>
                 Len(retired[ScopeObj(t)]) = 1)
    /\ [][\A t \in Threads :
            /\ (ScopeObj(t) \in entering /\ ScopeObj(t) \notin entering') =>
                  mem'[SectionTimer] = mem[SectionTimer]
            /\ (calls' # calls /\ res'.obj = ScopeObj(t)) =>
               /\ res'.op = "initializers" => mem'[SectionTimer] = mem[SectionTimer]
               /\ res'.op = "exit" =>
                    /\ last'[ScopeObj(t)] \in ExitPaths
                    /\ mem'[SectionTimer] =
                          Add64(mem[SectionTimer], retired'[ScopeObj(t)][1])]_vars

\* A thread left the scope of its Scopewatch by unwinding one nanosecond
\* after it entered: the one duration retired is 1 and the Timer holds it.
C15_Witness ==
    \E t \in Threads :
        /\ kind[ScopeObj(t)] = "none"
        /\ last[ScopeObj(t)] = "unwind"
        /\ res.op = "exit"
        /\ res.val = One
        /\ retired[ScopeObj(t)] = <<One>>
        /\ mem[SectionTimer] = One
        /\ entries = 0

\* C16: when the scope of a Scopewatch (or Section) is left, on whichever
\* path, the Timer rises by the one duration the object retires, and that
\* duration is no less than the time from the return of the object's
\* constructor to the end of its lifetime.
C16_CoversLifetime ==
    [][\A t \in Threads :
          (calls' # calls /\ res'.obj = ScopeObj(t) /\ res'.op = "exit") =>
             /\ last'[ScopeObj(t)] \in ExitPaths
             /\ alive'[ScopeObj(t)] = alive[ScopeObj(t)]
             /\ retired'[ScopeObj(t)] = <<res'.val>>
             /\ mem'[SectionTimer] = Add64(mem[SectionTimer], res'.val)
             /\ \E n \in alive[ScopeObj(t)]..MaxClock : res'.val = FromRep(n)]_vars

\* The constructor returned one nanosecond after it had read the clock and
\* the scope was left one nanosecond later: the object lived for 1 and the
\* Timer rose by 2.
C16_Witness ==
    \E t \in Threads :
        /\ kind[ScopeObj(t)] = "none"
        /\ last[ScopeObj(t)] \in ExitPaths
        /\ alive[ScopeObj(t)] = 1
        /\ retired[ScopeObj(t)] = <<(<<2, 0, 0, 0>>)>>
        /\ mem[SectionTimer] = <<2, 0, 0, 0>>

\* C17: the Counter of a section holds the number of Sections constructed so
\* far by all threads together: each construction of a Section adds 1 to it,
\* in the body of the constructor, and neither the initializers of the
\* constructor, nor the construction of a Scopewatch, nor leaving a scope
\* changes it.
C17_OnePerEntry ==
    /\ [](mem[SectionCounter] = FromRep(entries))
    /\ [][\A t \in Threads :
            /\ (ScopeObj(t) \in entering /\ ScopeObj(t) \notin entering') =>
                  /\ res'.op = "enter"
                  /\ res'.val = "Section" =>
                       mem'[SectionCounter] = Add64(mem[SectionCounter], One)
                  /\ res'.val = "Scopewatch" =>
                       mem'[SectionCounter] = mem[SectionCounter]
            /\ (calls' # calls /\ res'.obj = ScopeObj(t)) =>
                  mem'[SectionCounter] = mem[SectionCounter]]_vars

\* Both threads entered the section, one has left it again: the Counter
\* holds 2.
C17_Witness ==
    /\ entries = 2
    /\ mem[SectionCounter] = <<2, 0, 0, 0>>
    /\ kind[ScopeObj("t1")] = "Section"
    /\ kind[ScopeObj("t2")] = "none"
    /\ last[ScopeObj("t2")] \in ExitPaths

\* C19: where assert is evaluated, a split() or stop() on a Stopwatch whose
\* latest call was stop() or its construction with started = false (or as a
\* copy of such a Stopwatch) fails the assertion: the program ends, the call
\* returns no duration, and neither the Timer nor what the Stopwatch has
\* retired changes.  Nothing else ends the program.
C19_IdleSplitAsserts ==
    /\ [](phase = "aborted" =>
            /\ asserts
            /\ res.op \in {"split", "stop"}
            /\ res.val = AssertionFailed)
    /\ [][\A w \in HandWatches :
            (/\ asserts
             /\ calls' # calls
             /\ res'.obj = w
             /\ res'.op \in {"split", "stop"}
             /\ last[w] \in {"construct", "stop", "copy"}) =>
                /\ phase' = "aborted"
                /\ res'.val = AssertionFailed
                /\ mem' = mem
                /\ retired' = retired
                /\ m_start' = m_start]_vars

\* The Stopwatch was constructed started and stopped after one nanosecond;
\* the second stop() failed the assertion and the Timer still holds 1.
C19_Witness ==
    /\ asserts
    /\ phase = "aborted"
    /\ res.op = "stop"
    /\ res.obj = ManualWatch
    /\ last[ManualWatch] = "stop"
    /\ retired[ManualWatch] = <<One>>
    /\ mem[m_par(ManualWatch)] = One

\* The Timers that Stopwatches are bound to.
WatchTimers == {m_par(w) : w \in WatchObjs}

\* The sum modulo 2^64 of a sequence of returned durations.
RECURSIVE C21_Sum(_)
C21_Sum(durs) == IF durs = <<>> THEN Zero ELSE Add64(Head(durs), C21_Sum(Tail(durs)))

\* The sum modulo 2^64 of the durations that the split() and stop() calls of
\* the two threads on their own Stopwatches have returned.
C21_Returned ==
    Add64(C21_Sum(retired[OwnWatch("t1")]), C21_Sum(retired[OwnWatch("t2")]))

\* C21 as the specification states it: whatever the interleaving of the
\* split() and stop() calls that the threads make on their own Stopwatches,
\* the Timer they share holds, as a number, its initial value plus the sum
\* of all durations those calls returned.
C21_ExactSum ==
    \A a \in WatchTimers : Widen(mem[a]) = total[a]

\* C21, amended: whatever the interleaving of the split() and stop() calls
\* that the threads make on their own Stopwatches, the Timer they share holds
\* its initial value plus the sum of all durations those calls returned,
\* taken modulo 2^64.  No retired interval is lost: only such a call changes
\* the Timer, and each adds the duration it returns.
C21_NoIntervalLost ==
    /\ [](/\ \A a \in WatchTimers : mem[a] = Truncate(total[a])
          /\ \E held \in HeldBefore :
                 mem[SectionTimer] = Add64(held, C21_Returned))
    /\ [][/\ \A a \in WatchTimers :
               mem'[a] # mem[a] =>
                   /\ res'.op \in {"split", "stop"}
                   /\ res'.val # AssertionFailed
                   /\ m_par(res'.obj) = a
                   /\ mem'[a] = Add64(mem[a], res'.val)
          /\ (/\ calls' = calls + 1
              /\ res'.op \in {"split", "stop"}
              /\ res'.val # AssertionFailed)
                 => /\ mem'[m_par(res'.obj)] = Add64(mem[m_par(res'.obj)], res'.val)
                    /\ retired'[res'.obj] = Append(retired[res'.obj], res'.val)
                    /\ \A w \in WatchObjs \ {res'.obj} : retired'[w] = retired[w]]_vars

\* The Timer held 2^64 - 1 ns.  Thread t1 read the clock in split() one
\* nanosecond after it had started its Stopwatch; thread t2 read the clock in
\* stop() a nanosecond later and retired two nanoseconds; t1 retired its one
\* nanosecond last.  The exact sum is 2^64 + 2 and the Timer holds 2.
C21_Witness ==
    /\ res.op = "split"
    /\ res.obj = OwnWatch("t1")
    /\ res.val = One
    /\ retired[OwnWatch("t1")] = <<One>>
    /\ retired[OwnWatch("t2")] = << <<2, 0, 0, 0>> >>
    /\ last[OwnWatch("t2")] = "stop"
    /\ total[SectionTimer][NumLimbs + 1] = 1
    /\ mem[SectionTimer] = <<2, 0, 0, 0>>

\* The signed nanosecond count of the durations of NegativeInputs as a value
\* modulo 2^64: -1 ms is -1,000,000 ns, and -1999 ps are -1 ns.
C22_SignedNanoseconds(d) ==
    CASE d = <<-1, "ms">> -> <<48576, 65520, 65535, 65535>>
      [] d = <<-3, "ns">> -> <<65533, 65535, 65535, 65535>>
      [] d = <<-1999, "ps">> -> <<65535, 65535, 65535, 65535>>

\* What timer += adds for the durations of NegativeInputs: the count becomes
\* count + 2^64 before it is converted to nanoseconds, so -1999 ps add
\* (2^64 - 1999) / 1000 = 18,446,744,073,709,549.
C22_WrappedNanoseconds(d) ==
    CASE d = <<-1, "ms">> -> <<48576, 65520, 65535, 65535>>
      [] d = <<-3, "ns">> -> <<65533, 65535, 65535, 65535>>
      [] d = <<-1999, "ps">> -> <<42989, 19398, 35127, 65>>

\* C22 as the specification states it: timer += of a negative duration makes
\* the stored count (old count + the duration's signed nanosecond count)
\* modulo 2^64.
C22_WrapsBySignedCount ==
    [][(calls' # calls /\ res'.op = "timer_add" /\ res'.val[1] < 0) =>
          mem'[res'.obj] = Add64(mem[res'.obj], C22_SignedNanoseconds(res'.val))]_vars

\* C22: timer += of a negative duration is rejected by no check and wraps
\* around: the count of the duration is taken modulo 2^64 before it is
\* converted to nanoseconds, so a duration in milliseconds or nanoseconds makes
\* the stored count (old count + signed nanosecond count) modulo 2^64, and one
\* in picoseconds adds (count + 2^64) / 1000 instead.
C22_WrapsBeforeConversion ==
    [][(calls' # calls /\ res'.op = "timer_add" /\ res'.val[1] < 0) =>
          /\ phase' = "main"
          /\ mem'[res'.obj] =
                Add64(mem[res'.obj], C22_WrappedNanoseconds(res'.val))]_vars

\* Nine and then -1 ms were added to the fresh Timer: it holds
\* 2^64 - 999,991.
C22_Witness ==
    /\ calls = 2
    /\ res.op = "timer_add"
    /\ res.obj = SourceAddr
    /\ res.val = <<-1, "ms">>
    /\ mem[SourceAddr] = <<48585, 65520, 65535, 65535>>

\* C23 as the specification states it: in no state is the interval of a
\* Section open while the increment of the Counter that belongs to the
\* construction of that Section has not happened yet.
C23_CountedBeforeTimed ==
    \A t \in Threads :
        (kind[ScopeObj(t)] = "Section" /\ Running(ScopeObj(t))) =>
            ScopeObj(t) \notin entering

\* C23: on construction of a Section the timer is started before the Counter
\* is incremented: while the body of the constructor has not run the interval
\* is open already, the step that opens the interval leaves the Counter as it
\* is, and the step that increments the Counter is the body of the constructor
\* of a Section whose interval is open and stays as it is.
C23_TimedBeforeCounted ==
    /\ [](\A t \in Threads :
            ScopeObj(t) \in entering =>
                /\ kind[ScopeObj(t)] \in ScopeKinds
                /\ Running(ScopeObj(t)))
    /\ [][\A t \in Threads :
            (~Running(ScopeObj(t)) /\ Running(ScopeObj(t))') =>
                /\ mem'[SectionCounter] = mem[SectionCounter]
                /\ ScopeObj(t) \in entering']_vars
    /\ [][mem'[SectionCounter] # mem[SectionCounter] =>
            \E t \in Threads :
                /\ ScopeObj(t) \in entering
                /\ ScopeObj(t) \notin entering'
                /\ kind[ScopeObj(t)] = "Section"
                /\ Running(ScopeObj(t))
                /\ m_start'[ScopeObj(t)] = m_start[ScopeObj(t)]
                /\ mem'[SectionCounter] = Add64(mem[SectionCounter], One)]_vars

\* A thread is constructing the first Section: its interval has been open for
\* one nanosecond and the Counter is still 0.
C23_Witness ==
    \E t \in Threads :
        /\ ScopeObj(t) \in entering
        /\ kind[ScopeObj(t)] = "Section"
        /\ Running(ScopeObj(t))
        /\ elapsed[ScopeObj(t)] = 1
        /\ entries = 0
        /\ mem[SectionCounter] = Zero

\* C24 as the specification states it: assigning a Stopwatch that is bound to
\* another Timer changes neither the value of the Timer the assigned
\* Stopwatch is bound to nor the value of the other Timer.
C24_AssignKeepsTimers ==
    [][(assigning.on /\ ~assigning'.on) =>
          /\ mem'[m_par(assigning.dst)] = mem[m_par(assigning.dst)]
          /\ mem'[m_par(assigning.src)] = mem[m_par(assigning.src)]]_vars

\* The Stopwatch had retired an interval to its Timer when it was assigned a
\* Stopwatch bound to the Timer of the section, which held 0: its Timer
\* holds 0 now although an interval was retired to it.
C24_TimerOverwritten ==
    /\ res.op = "assign"
    /\ retired[ManualWatch] = <<One>>
    /\ mem[m_par(ManualWatch)] = Zero

\* The sum modulo 2^64 of a sequence of durations.
RECURSIVE C25_Sum(_)
C25_Sum(durs) == IF durs = <<>> THEN Zero ELSE Add64(Head(durs), C25_Sum(Tail(durs)))

\* The durations the Stopwatch returned in its current run.
C25_Returned(r, w) == SubSeq(r[w], run[w].from + 1, Len(r[w]))

\* C25: from a start() on, through any number of split() calls, the durations
\* returned so far and the interval still open add up to the time since the
\* clock reading of that start(); so at the stop() that ends the run the
\* durations returned in the run add up to the time between the two clock
\* readings.  Each of these calls raises the Timer by what it returns, and
\* while no copy of the Stopwatch retires to the same Timer the Timer has
\* risen over the run by exactly that time.
C25_NoTimeLost ==
    /\ [](\A w \in HandWatches :
            run[w].begun =>
                C25_Sum(C25_Returned(retired, w) \o <<FromRep(elapsed[w])>>)
                  = FromRep(run[w].open))
    /\ [][\A w \in HandWatches :
            (/\ calls' # calls
             /\ res'.obj = w
             /\ res'.op \in {"split", "stop"}
             /\ run[w].begun) =>
                /\ res'.val # AssertionFailed
                /\ mem'[m_par(w)] = Add64(mem[m_par(w)], res'.val)
                /\ res'.op = "stop" =>
                     /\ C25_Sum(C25_Returned(retired', w)) = FromRep(run[w].open)
                     /\ (w = ManualWatch /\ kind[CopyWatch] = "none") =>
                          mem'[m_par(w)] =
                             Add64(run[w].base, FromRep(run[w].open))]_vars

\* The Stopwatch was started, split one nanosecond later and stopped one
\* nanosecond after that: the run took 2 nanoseconds, and 1 and 1 were
\* returned.
C25_Witness ==
    /\ res.op = "stop"
    /\ last[ManualWatch] = "stop"
    /\ run[ManualWatch].open = 2
    /\ C25_Returned(retired, ManualWatch) = <<One, One>>
    /\ mem[m_par(ManualWatch)] = <<2, 0, 0, 0>>

\* a <= b for two values of as many limbs, compared from the top limb down.
RECURSIVE C26_LessEq(_, _)
C26_LessEq(a, b) ==
    IF a = <<>> THEN TRUE
    ELSE LET n == Len(a)
         IN  IF a[n] # b[n] THEN a[n] < b[n]
             ELSE C26_LessEq(SubSeq(a, 1, n - 1), SubSeq(b, 1, n - 1))

\* The lines i to n of a dump whose line k shows the value modulo 2^64 that
\* the history holds for it.
RECURSIVE C26_Text(_, _)
C26_Text(i, n) ==
    IF i > n THEN <<>>
    ELSE get_name(i - 1) \o <<",", " ">> \o ToDecimal(Truncate(seen.printed[i]))
           \o <<"\n">> \o C26_Text(i + 1, n)

\* The steps of dump change no Counter and no entry of the Registry.
C26_DumpChangesNothing ==
    [][(dump_pc' # dump_pc \/ dump_idx' # dump_idx) =>
          /\ mem' = mem
          /\ registry' = registry]_vars

\* dump writes one line per entry in registration order and count() lines in
\* all; the value on a line is the one its Counter held when the line was
\* written.
C26_LinesInOrder ==
    [](dump_pc \in {"loop", "done"} =>
          /\ Len(seen.printed) = dump_idx
          /\ dump_idx <= count
          /\ dump_pc = "done" => dump_idx = count
          /\ out = C26_Text(1, dump_idx))

\* C26 as the specification states it: a dump that runs while Counters are
\* incremented changes nothing and writes count() lines in registration
\* order, and when it ends the value on each line is at least the value the
\* Counter held when the dump began and at most the value it holds now.
C26_ValuesWithinDump ==
    /\ C26_DumpChangesNothing
    /\ C26_LinesInOrder
    /\ [][(dump_pc = "loop" /\ dump_pc' = "done") =>
            \A i \in 1..Len(seen.printed) :
                /\ C26_LessEq(Truncate(seen.begin[m_instances[i]]),
                              Truncate(seen.printed[i]))
                /\ C26_LessEq(Truncate(seen.printed[i]), mem[m_instances[i]])]_vars

\* C26: a dump that runs while Counters are incremented changes nothing and
\* writes count() lines in registration order; the value on each line is the
\* one its Counter held when the line was written, which is the exact sum of
\* all that was added to the Counter by then taken modulo 2^64: that sum is at
\* least the sum when the dump began and at most the sum when the dump ends.
C26_ValuesHeldDuringDump ==
    /\ C26_DumpChangesNothing
    /\ C26_LinesInOrder
    /\ [](dump_pc \in {"loop", "done"} =>
            \A i \in 1..Len(seen.printed) :
                /\ C26_LessEq(seen.begin[m_instances[i]], seen.printed[i])
                /\ C26_LessEq(seen.printed[i], total[m_instances[i]]))
    /\ [][(dump_pc = "loop" /\ dump_idx' # dump_idx) =>
            /\ Truncate(seen'.printed[dump_idx']) = mem[m_instances[dump_idx']]
            /\ seen'.printed[dump_idx'] = total[m_instances[dump_idx']]]_vars

\* While the dump ran, 2^64 - 1 was added to the Counter "a", which held 9
\* when the dump began: its line shows 8, and the line of "ab" follows.
C26_Witness ==
    /\ dump_pc = "done"
    /\ dirty
    /\ seen.begin[MINPROF_COUNTER("u1", NameA)] = Widen(Nine)
    /\ out = <<"a", ",", " ", "8", "\n", "a", "b", ",", " ", "0", "\n">>

====
